---- MODULE Spec2Model ----
(***************************************************************************)
(* Model of the sales stores' batch import (hooks/useSalesStore.ts and     *)
(* hooks/useCloudSalesStore.ts) and of the spreadsheet row mapper          *)
(* (utils/formatters.ts, importFromExcel).                                 *)
(*                                                                         *)
(* An entry is modelled by an integer that stands for the record's         *)
(* content; the entries handed to the k-th addEntriesBatch call are the    *)
(* integers IdBase(k)+1 .. IdBase(k)+n in source order.                    *)
(***************************************************************************)
EXTENDS Integers, Sequences, FiniteSets, TLC

VARIABLES
  store,          \* the store implementation of this run: "local" or "cloud"
  user,           \* useAuth().user is set (cloud store)
  entries,        \* the store's entries list
  remote,         \* rows of the sales_entries table, in insertion order (cloud)
  isImporting,    \* the store's isImporting flag
  importProgress, \* the store's importProgress value
  error,          \* cloud store's error state: "null" or a message
  calls,          \* the addEntriesBatch invocations, by invocation number
  commitOrder,    \* invocation numbers of the batch commits, in commit order
  workbook,       \* importFromExcel: what reading the file gives (see Workbooks)
  jsonData,       \* importFromExcel: the rows decoded from the first sheet
  importPc,       \* importFromExcel: "idle", "reading" or "resolved"
  importResult,   \* importFromExcel: the ImportResult it resolved with
  host,           \* base year and month of the import, and the host's UTC offset
  clock,          \* the host clock: its coming readings and how many were taken
  rng,            \* Math.random: its coming draws and how many were taken
  removedIds,     \* history: the ids of the entries removed from the store
  pastImports,    \* history: the earlier import calls, their inputs and data
  file,           \* FilterImportExport: the file the file input holds
  isProcessingFile, \* FilterImportExport: its isProcessingFile state
  toast,          \* the title of the last toast shown
  dateRange,      \* DailySalesReport: its dateRange state
  importCalendarOpen, \* FilterImportExport: its importCalendarOpen state
  fileChooserOpen,    \* the file input was clicked and its chooser is open
  selectedMonth,  \* the store's selectedMonth state
  monthEntries,   \* DailySalesReport: the memoized list the page shows
  fetch,          \* cloud store: the fetchEntries call, if one is in flight
  cloudOp,        \* cloud store: the addEntry, removeEntry or clearAllEntries
                  \* call in flight, and the number of such calls made
  localStorage,   \* the item 'sales-entries-storage' of localStorage
  idb,            \* the item 'sales-entries-storage' of IndexedDB, whether
                  \* IndexedDB works, and (history) the item at start-up
  idbQueue,       \* the IndexedDB requests issued and not yet served, in order
  migrate,        \* migrateFromLocalStorage: its position and what it has read
  hydrate,        \* the persist middleware's rehydration: position and value
  storageError,   \* IndexedDB-backed store: its storageError state
  added           \* the number of calls made of the store's functions that
                  \* are no import: addEntry, addEntries, setImporting, ...

storeVars == <<store, user, entries, remote, isImporting, importProgress,
               error, calls, commitOrder>>

importVars == <<workbook, jsonData, importPc, importResult, host, clock, rng>>

idVars == <<removedIds, pastImports>>

pageVars == <<selectedMonth, monthEntries>>

uiVars == <<file, isProcessingFile, toast, dateRange, importCalendarOpen,
           fileChooserOpen, pageVars>>

cloudVars == <<fetch, cloudOp>>

idbVars == <<idb, idbQueue, migrate, hydrate, storageError, added>>

persistVars == <<localStorage, idbVars>>

vars == <<storeVars, importVars, idVars, uiVars, cloudVars, persistVars>>

\* A date that is undefined
NoDate == [year |-> 0, month |-> 0, day |-> 0]

\* useState<DateRange>({ from: undefined, to: undefined })
NoRange == [from |-> NoDate, to |-> NoDate]

\* No fetchEntries call is in flight
IdleFetch == [pc |-> "idle", data |-> <<>>, loading |-> FALSE, failed |-> FALSE]

\* No addEntry, removeEntry or clearAllEntries call is in flight
IdleOp == [pc |-> "idle", kind |-> "none", id |-> 0, answer |-> "none", made |-> 0]

\* getItem's null: nothing is stored under the name
NoItem == [isNull |-> TRUE, entries |-> <<>>]

\* The value stored under 'sales-entries-storage': the JSON text of
\* { state: { entries }, version: 0 }, which both stores write with
\* partialize: (state) => ({ entries: state.entries })
Item(list) == [isNull |-> FALSE, entries |-> list]

\* The migration and the rehydration have run to their end
SettledMigration == [pc |-> "done", localData |-> NoItem, existingIDB |-> NoItem]

SettledHydration == [pc |-> "done", value |-> NoItem]

\* e.target.files?.[0] of a change event without a file
NoFile == [size |-> 0, sheet |-> <<>>, chosen |-> FALSE]

(***************************************************************************)
(* Program constants and bounds                                            *)
(***************************************************************************)
BATCH_SIZE == 500

MaxBatches == 3
MaxPrior == 2
\* The addEntry, removeEntry and clearAllEntries calls made on the cloud store
MaxOps == 1

\* Two invocations of addEntriesBatch: an earlier and a later one, which may
\* overlap.
Callers == {1, 2}

\* Input lengths: the early-return case, one short batch, exactly one full
\* batch, and every number of full batches followed by a batch of one.
Lens ==
  {0, 1, BATCH_SIZE} \cup {k * BATCH_SIZE + 1 : k \in 1..(MaxBatches - 1)}

CallbackKinds == {"none", "ok", "throws"}

IdBase(c) == c * (MaxBatches + 1) * BATCH_SIZE

NewEntries(c, n) == [k \in 1..n |-> IdBase(c) + k]

PriorEntries(m) == [k \in 1..m |-> k]

\* How many calls are made of the store's functions that are no import
MaxAdded == 1

\* The entry of the k-th such call when it is an addEntry, and its entries
\* when it is an addEntries
AddedEntry(k) == MaxPrior + 1 + k

AddedList(k) == <<BATCH_SIZE + 2 * k - 1, BATCH_SIZE + 2 * k>>

(***************************************************************************)
(* JavaScript values of the spreadsheet import                             *)
(*                                                                         *)
(* A string is a sequence of one-character strings.  A finite number is    *)
(* the exact decimal fraction num/den, den a power of ten, in lowest such  *)
(* terms, so that equal numbers are equal records.                         *)
(***************************************************************************)
Undefined == [t |-> "undefined"]

StringValue(chars) == [t |-> "string", s |-> chars]

NaN == [t |-> "number", nan |-> TRUE, num |-> 0, den |-> 1]

RECURSIVE NumberValue(_, _)
NumberValue(num, den) ==
  IF den > 1 /\ num % 10 = 0
    THEN NumberValue(num \div 10, den \div 10)
    ELSE [t |-> "number", nan |-> FALSE, num |-> num, den |-> den]

NoResult == [success |-> FALSE, data |-> <<>>, errors |-> <<>>, allErrors |-> <<>>]

(***************************************************************************)
(* The host: calendar, time zone, clock and Math.random                    *)
(*                                                                         *)
(* baseMonth counts from 0 as Date.getMonth does; utcOffset is the local   *)
(* time minus UTC in minutes.  The clock's run lists its coming readings   *)
(* in milliseconds (after the last one it stands still); the draws of      *)
(* Math.random repeat cyclically.  fromGiven tells whether the import was  *)
(* handed options.dateRangeFrom; without it the base year and month are    *)
(* those of new Date(), which takes a reading of the clock.  unicode is the *)
(* version of the Unicode character database the JavaScript engine was     *)
(* built with: 14 stands for 14.0 to 15.1, whose case mappings are the     *)
(* same.                                                                   *)
(***************************************************************************)
DefaultHost == [baseYear |-> 2024, baseMonth |-> 2, utcOffset |-> 0,
                fromGiven |-> TRUE, unicode |-> 14]

\* The engines the page is opened in
UnicodeVersions == {14, 16, 17}

\* The local calendar day of today: new Date()
Today == [year |-> DefaultHost.baseYear, month |-> DefaultHost.baseMonth, day |-> 5]

SteadyClock == [run |-> <<1>>, reads |-> 0]

TickingClock == [run |-> <<1, 2, 3, 4, 5, 6, 7>>, reads |-> 0]

\* The clock readings of baseDate = options?.dateRangeFrom || new Date()
BaseDateReads(h) == IF h.fromGiven THEN 0 ELSE 1

DefaultRng == [draws |-> <<1, 2, 3, 4>>, drawn |-> 0]

\* The k-th next reading of Date.now()
ClockRead(c, k) ==
  IF c.reads + k <= Len(c.run) THEN c.run[c.reads + k] ELSE c.run[Len(c.run)]

\* The k-th next draw of Math.random()
RandomDraw(r, k) == r.draws[((r.drawn + k - 1) % Len(r.draws)) + 1]

IsLeapYear(year) == (year % 4 = 0 /\ year % 100 # 0) \/ year % 400 = 0

\* Days of the month, month counted from 0
DaysInMonth(year, month) ==
  IF month = 1 THEN (IF IsLeapYear(year) THEN 29 ELSE 28)
  ELSE IF month \in {3, 5, 8, 10} THEN 30
  ELSE 31

\* new Date(year, month, day): the local calendar day, a day past the end
\* of the month carried into the next month
RECURSIVE NewDate(_, _, _)
NewDate(year, month, day) ==
  IF day > DaysInMonth(year, month)
    THEN IF month = 11
           THEN NewDate(year + 1, 0, day - DaysInMonth(year, month))
           ELSE NewDate(year, month + 1, day - DaysInMonth(year, month))
    ELSE [year |-> year, month |-> month, day |-> day]

PreviousDay(date) ==
  IF date.day > 1 THEN [date EXCEPT !.day = @ - 1]
  ELSE IF date.month > 0
    THEN [year |-> date.year, month |-> date.month - 1,
          day |-> DaysInMonth(date.year, date.month - 1)]
  ELSE [year |-> date.year - 1, month |-> 11, day |-> 31]

\* date.toISOString().split('T')[0] of a local midnight: the UTC calendar
\* day, months counted from 1.  East of Greenwich the local midnight lies
\* in the previous UTC day.
ToISODate(date, utcOffset) ==
  LET utc == IF utcOffset > 0 THEN PreviousDay(date) ELSE date
  IN [year |-> utc.year, month |-> utc.month + 1, day |-> utc.day]

(***************************************************************************)
(* JavaScript primitives                                                   *)
(***************************************************************************)
Min(a, b) == IF a < b THEN a ELSE b

Max(a, b) == IF a > b THEN a ELSE b

\* Math.ceil(n / d) for n >= 0, d > 0
MathCeilDiv(n, d) == (n + d - 1) \div d

\* Math.round(n / d) for n >= 0, d > 0 (halves round up)
MathRoundDiv(n, d) == (2 * n + d) \div (2 * d)

\* Array.prototype.slice(start, end): 0-based, end exclusive, clamped
Slice(s, start, end) ==
  LET lo == Min(Max(start, 0), Len(s))
      hi == Min(Max(end, 0), Len(s))
  IN  SubSeq(s, lo + 1, hi)

(***************************************************************************)
(* JavaScript numbers: IEEE 754 doubles                                    *)
(*                                                                         *)
(* A natural number of any size is the sequence of its base-256 digits     *)
(* (limbs), the least significant first.  A double is a sign, a mantissa   *)
(* m of at most 53 significant bits and an exponent e: its value is        *)
(* m * 256^e.  Every operation gives the exact result rounded to the       *)
(* nearest double, ties to the even mantissa.                              *)
(***************************************************************************)
RECURSIVE LimbsOf(_)
LimbsOf(n) == IF n = 0 THEN <<>> ELSE <<n % 256>> \o LimbsOf(n \div 256)

RECURSIVE IntOfLimbs(_)
IntOfLimbs(limbs) ==
  IF limbs = <<>> THEN 0 ELSE Head(limbs) + 256 * IntOfLimbs(Tail(limbs))

ZeroLimbs(k) == [j \in 1..k |-> 0]

RECURSIVE StripHighLimbs(_)
StripHighLimbs(limbs) ==
  IF limbs # <<>> /\ limbs[Len(limbs)] = 0
    THEN StripHighLimbs(SubSeq(limbs, 1, Len(limbs) - 1))
    ELSE limbs

RECURSIVE AddLimbs(_, _, _)
AddLimbs(a, b, carry) ==
  IF a = <<>> /\ b = <<>> THEN (IF carry = 0 THEN <<>> ELSE <<carry>>)
  ELSE LET sum == (IF a = <<>> THEN 0 ELSE Head(a))
                    + (IF b = <<>> THEN 0 ELSE Head(b)) + carry
       IN <<sum % 256>> \o AddLimbs(IF a = <<>> THEN a ELSE Tail(a),
                                    IF b = <<>> THEN b ELSE Tail(b),
                                    sum \div 256)

\* a - b for a >= b
RECURSIVE SubLimbs(_, _, _)
SubLimbs(a, b, borrow) ==
  IF a = <<>> THEN <<>>
  ELSE LET diff == Head(a) - (IF b = <<>> THEN 0 ELSE Head(b)) - borrow
       IN <<diff % 256>> \o SubLimbs(Tail(a), IF b = <<>> THEN b ELSE Tail(b),
                                     IF diff < 0 THEN 1 ELSE 0)

\* a < b, for a and b without leading zero limbs
LessLimbs(a, b) ==
  IF Len(a) # Len(b) THEN Len(a) < Len(b)
  ELSE \E k \in 1..Len(a) :
         /\ a[k] < b[k]
         /\ \A j \in (k + 1)..Len(a) : a[j] = b[j]

\* a * k for a digit k
RECURSIVE ScaleLimbs(_, _, _)
ScaleLimbs(a, k, carry) ==
  IF a = <<>> THEN (IF carry = 0 THEN <<>> ELSE <<carry>>)
  ELSE LET product == Head(a) * k + carry
       IN <<product % 256>> \o ScaleLimbs(Tail(a), k, product \div 256)

RECURSIVE MulLimbs(_, _)
MulLimbs(a, b) ==
  IF b = <<>> THEN <<>>
  ELSE AddLimbs(ScaleLimbs(a, Head(b), 0), <<0>> \o MulLimbs(a, Tail(b)), 0)

\* Long division of the limbs k..Len(a) by a small divisor d: quotient limbs
\* and remainder
RECURSIVE DivLimbs(_, _, _)
DivLimbs(a, k, d) ==
  IF k > Len(a) THEN [q |-> <<>>, r |-> 0]
  ELSE LET high == DivLimbs(a, k + 1, d)
           cur == high.r * 256 + a[k]
       IN [q |-> <<cur \div d>> \o high.q, r |-> cur % d]

RECURSIVE BitLength(_)
BitLength(n) == IF n = 0 THEN 0 ELSE 1 + BitLength(n \div 2)

RECURSIVE PowerOfTwo(_)
PowerOfTwo(k) == IF k = 0 THEN 1 ELSE 2 * PowerOfTwo(k - 1)

RECURSIVE LowZeroLimbs(_)
LowZeroLimbs(limbs) ==
  IF limbs = <<>> \/ Head(limbs) # 0 THEN 0 ELSE 1 + LowZeroLimbs(Tail(limbs))

\* The double m * 256^e, its mantissa without low zero limbs
Double(neg, m, e) ==
  LET z == LowZeroLimbs(m)
  IN [neg |-> neg, m |-> SubSeq(m, z + 1, Len(m)), e |-> e + z]

\* Round-to-nearest, ties to even, of the exact value limbs * 256^e (plus a
\* non-zero rest below it when sticky) at 53 significant bits
RoundToDouble(neg, limbs, e, sticky) ==
  LET m == StripHighLimbs(limbs)
      drop == 8 * (Len(m) - 1) + BitLength(m[Len(m)]) - 53
      w == drop \div 8
      b == drop % 8
      unit == PowerOfTwo(b)
      guard == IF b >= 1 THEN (m[w + 1] \div PowerOfTwo(b - 1)) % 2
               ELSE m[w] \div 128
      rest == \/ sticky
              \/ IF b >= 1
                   THEN \/ m[w + 1] % PowerOfTwo(b - 1) # 0
                        \/ \E j \in 1..w : m[j] # 0
                   ELSE \/ m[w] % 128 # 0
                        \/ \E j \in 1..(w - 1) : m[j] # 0
      odd == (m[w + 1] \div unit) % 2 = 1
      kept == ZeroLimbs(w) \o <<m[w + 1] - (m[w + 1] % unit)>>
                \o SubSeq(m, w + 2, Len(m))
  IN IF m = <<>> THEN Double(FALSE, <<>>, 0)
     ELSE IF drop <= 0 THEN Double(neg, m, e)
     ELSE IF guard = 1 /\ (rest \/ odd)
       THEN Double(neg, AddLimbs(kept, ZeroLimbs(w) \o <<unit>>, 0), e)
       ELSE Double(neg, kept, e)

\* The double nearest to num / den (den > 0), which is what a decimal
\* literal and an integer division denote
DoubleOfRatio(num, den) ==
  LET mag == IF num < 0 THEN 0 - num ELSE num
      div == DivLimbs(ZeroLimbs(11) \o LimbsOf(mag), 1, den)
  IN RoundToDouble(num < 0, div.q, -11, div.r # 0)

DoubleTimes(x, y) ==
  RoundToDouble(x.neg # y.neg, MulLimbs(x.m, y.m), x.e + y.e, FALSE)

\* x / d for a small positive integer d
DoubleOver(x, d) ==
  LET div == DivLimbs(ZeroLimbs(11) \o x.m, 1, d)
  IN RoundToDouble(x.neg, div.q, x.e - 11, div.r # 0)

DoubleMinus(x, y) ==
  LET e == IF x.e < y.e THEN x.e ELSE y.e
      a == StripHighLimbs(ZeroLimbs(x.e - e) \o x.m)
      b == StripHighLimbs(ZeroLimbs(y.e - e) \o y.m)
  IN IF x.neg # y.neg THEN RoundToDouble(x.neg, AddLimbs(a, b, 0), e, FALSE)
     ELSE IF LessLimbs(a, b)
       THEN RoundToDouble(~x.neg, SubLimbs(b, a, 0), e, FALSE)
       ELSE RoundToDouble(x.neg, SubLimbs(a, b, 0), e, FALSE)

\* Math.round of a double: the nearest integer, halves towards +Infinity
MathRoundOfDouble(x) ==
  LET f == 0 - x.e
      whole == IntOfLimbs(SubSeq(x.m, f + 1, Len(x.m)))
      top == IF f <= Len(x.m) THEN x.m[f] ELSE 0
      below == \E j \in 1..(f - 1) : j <= Len(x.m) /\ x.m[j] # 0
  IN IF x.m = <<>> THEN 0
     ELSE IF x.e >= 0
       THEN (IF x.neg THEN 0 - 1 ELSE 1) * IntOfLimbs(ZeroLimbs(x.e) \o x.m)
     ELSE IF x.neg
       THEN 0 - whole - (IF top > 128 \/ (top = 128 /\ below) THEN 1 ELSE 0)
       ELSE whole + (IF top >= 128 THEN 1 ELSE 0)

(***************************************************************************)
(* addEntriesBatch: the parts both stores share                            *)
(***************************************************************************)
\* Faulty variant of TotalBatches: the division rounded down.
TotalBatchesFloor(n) == n \div BATCH_SIZE

TotalBatches(n) == MathCeilDiv(n, BATCH_SIZE)

\* Faulty variant of BatchOf: the slice starts one record late.
BatchOfShifted(newEntries, i) ==
  LET start == i * BATCH_SIZE + 1
      end == Min(start + BATCH_SIZE, Len(newEntries))
  IN  Slice(newEntries, start, end)

BatchOf(newEntries, i) ==
  LET start == i * BATCH_SIZE
      end == Min(start + BATCH_SIZE, Len(newEntries))
  IN  Slice(newEntries, start, end)

\* Faulty variant of Progress: the loop index in place of the batch count.
ProgressOfIndex(i, totalBatches) == MathRoundDiv(i * 100, totalBatches)

\* Math.round(((i + 1) / totalBatches) * 100)
Progress(i, totalBatches) ==
  MathRoundOfDouble(DoubleTimes(DoubleOfRatio(i + 1, totalBatches),
                                DoubleOfRatio(100, 1)))

\* The values a call can be rejected with.
NoError == [from |-> "none", isError |-> FALSE, message |-> ""]

CallbackError == [from |-> "callback", isError |-> TRUE, message |-> "callback failed"]

\* A call's record: pc is "idle" (not made), "yield" (local store: waiting for
\* the timer between batches), "await" (cloud store: an insert is in flight),
\* "served" (cloud store: the table has answered the insert and the awaiting
\* code has not gone on yet), "resolved" or "rejected"; n and cb are its arguments (the number of entries
\* and the kind of onProgress callback), i the loop index, inserted the cloud
\* store's insertedEntries.  issued (the number of commit calls made), answers
\* (what the remote table answered to each insert), commits (the batches
\* committed), reports (the values passed to onProgress) and thrown (the
\* rejection value) record what the call did.
IdleCall ==
  [pc |-> "idle", n |-> 0, cb |-> "none", i |-> 0, issued |-> 0,
   answers |-> <<>>, inserted |-> <<>>, commits |-> <<>>, reports |-> <<>>,
   thrown |-> NoError]

\* Invocations are numbered in the order they are made.
CanCall(c) ==
  /\ calls[c].pc = "idle"
  /\ c > 1 => calls[c - 1].pc # "idle"

(***************************************************************************)
(* useSalesStore (zustand store)                                           *)
(***************************************************************************)
\* Faulty variant of LocalPrepend: the batch replaces the list.
LocalReplace(batch, prev) == batch

\* entries: [...batch, ...state.entries]
LocalPrepend(batch, prev) == batch \o prev

\* Faulty variant of YieldsAfter: the loop also waits after the last batch.
YieldsAfterEvery(i, totalBatches) == i < totalBatches

\* if (i < totalBatches - 1) await new Promise(resolve => setTimeout(resolve, 10))
YieldsAfter(i, totalBatches) == i < totalBatches - 1

\* addEntries: entries: [...newEntries, ...state.entries]
AddEntries(newEntries, prev) == newEntries \o prev

\* One iteration of the batch loop of call c with index i, up to the next
\* await or to the end of the call; importing is the flag on entry.
LocalIteration(c, n, cb, i, importing, rec) ==
  LET newEntries == NewEntries(c, n)
      totalBatches == TotalBatches(n)
      batch == BatchOf(newEntries, i)
      p == Progress(i, totalBatches)
      committed == [rec EXCEPT !.n = n, !.cb = cb, !.i = i,
                               !.issued = @ + 1,
                               !.commits = Append(@, batch)]
      reported == IF cb = "none" THEN committed
                  ELSE [committed EXCEPT !.reports = Append(@, p)]
  IN  /\ entries' = LocalPrepend(batch, entries)
      /\ localStorage' = Item(LocalPrepend(batch, entries))
      /\ commitOrder' = Append(commitOrder, c)
      /\ IF cb = "throws"
           THEN /\ calls' = [calls EXCEPT ![c] =
                     [reported EXCEPT !.pc = "rejected", !.thrown = CallbackError]]
                /\ isImporting' = importing
                /\ importProgress' = p
           ELSE IF YieldsAfter(i, totalBatches)
           THEN /\ calls' = [calls EXCEPT ![c] = [reported EXCEPT !.pc = "yield"]]
                /\ isImporting' = importing
                /\ importProgress' = p
           ELSE /\ calls' = [calls EXCEPT ![c] = [reported EXCEPT !.pc = "resolved"]]
                /\ isImporting' = FALSE
                /\ importProgress' = 100

LocalAddEntriesBatch(c, n, cb) ==
  /\ store = "local"
  /\ CanCall(c)
  /\ IF n = 0
       THEN /\ calls' = [calls EXCEPT ![c] = [@ EXCEPT !.pc = "resolved", !.cb = cb]]
            /\ UNCHANGED <<entries, commitOrder, isImporting, importProgress,
                           localStorage>>
       ELSE IF 0 < TotalBatches(n)
       THEN LocalIteration(c, n, cb, 0, TRUE, calls[c])
       ELSE /\ calls' = [calls EXCEPT ![c] =
                 [@ EXCEPT !.pc = "resolved", !.n = n, !.cb = cb]]
            /\ isImporting' = FALSE
            /\ importProgress' = 100
            /\ localStorage' = Item(entries)
            /\ UNCHANGED <<entries, commitOrder>>
  /\ UNCHANGED <<store, user, remote, error, importVars, idVars, uiVars, cloudVars, idbVars>>

\* The setTimeout of the yield fires and the loop goes on with batch i + 1.
LocalResume(c) ==
  /\ store = "local"
  /\ calls[c].pc = "yield"
  /\ LocalIteration(c, calls[c].n, calls[c].cb, calls[c].i + 1, isImporting, calls[c])
  /\ UNCHANGED <<store, user, remote, error, importVars, idVars, uiVars, cloudVars, idbVars>>

\* setImporting of the local store, with the middleware's write of the state
SetImporting(importing) ==
  /\ store = "local"
  /\ added < MaxAdded
  /\ isImporting' = importing
  /\ importProgress' = (IF importing THEN 0 ELSE 100)
  /\ localStorage' = Item(entries)
  /\ added' = added + 1
  /\ UNCHANGED <<store, user, entries, remote, error, calls, commitOrder,
                 importVars, idVars, uiVars, cloudVars, idb, idbQueue,
                 migrate, hydrate, storageError>>

\* addEntries of the local store, with the middleware's write of the state
LocalAddEntries ==
  /\ store = "local"
  /\ added < MaxAdded
  /\ entries' = AddEntries(AddedList(added + 1), entries)
  /\ localStorage' = Item(AddEntries(AddedList(added + 1), entries))
  /\ added' = added + 1
  /\ UNCHANGED <<store, user, remote, isImporting, importProgress, error,
                 calls, commitOrder, importVars, idVars, uiVars, cloudVars,
                 idb, idbQueue, migrate, hydrate, storageError>>

(***************************************************************************)
(* useCloudSalesStore (React hook over the remote table)                   *)
(***************************************************************************)
\* What an awaited insert can answer: the stored rows, or an insertError that
\* is an Error instance or a plain error object.
InsertAnswers == {"ok", "error instance", "error object"}

InsertError(answer) ==
  [from |-> "insert", isError |-> (answer = "error instance"),
   message |-> "insert failed"]

\* What the awaited insert resolves to: { data, error }.
InsertResult(answer, batch) ==
  IF answer = "ok"
    THEN [data |-> batch, error |-> NoError]
    ELSE [data |-> <<>>, error |-> InsertError(answer)]

\* Faulty variant of InsertThrows: the insert's error is ignored.
InsertThrowsNever(result) == FALSE

\* if (insertError) throw insertError
InsertThrows(result) == result.error # NoError

\* setEntries((prev) => [...insertedEntries, ...prev])
CloudPrepend(insertedEntries, prev) == insertedEntries \o prev

\* err instanceof Error ? err.message : 'Failed to import entries'
ImportErrorMessage(err) ==
  IF err.isError THEN err.message ELSE "Failed to import entries"

\* Faulty variant of CloudFail: the catch block swallows the error.
CloudFailSwallows(c, rec, err) ==
  /\ calls' = [calls EXCEPT ![c] = [rec EXCEPT !.pc = "resolved"]]
  /\ error' = "null"
  /\ isImporting' = FALSE
  /\ importProgress' = 100
  /\ UNCHANGED entries

\* The catch and finally blocks of addEntriesBatch.
CloudFail(c, rec, err) ==
  /\ calls' = [calls EXCEPT ![c] = [rec EXCEPT !.pc = "rejected", !.thrown = err]]
  /\ error' = ImportErrorMessage(err)
  /\ isImporting' = FALSE
  /\ importProgress' = 100
  /\ UNCHANGED entries

CloudAddEntriesBatch(c, n, cb) ==
  /\ store = "cloud"
  /\ CanCall(c)
  /\ IF ~user \/ n = 0
       THEN /\ calls' = [calls EXCEPT ![c] = [@ EXCEPT !.pc = "resolved", !.cb = cb]]
            /\ UNCHANGED <<isImporting, importProgress>>
            /\ UNCHANGED <<entries, error>>
       ELSE IF 0 < TotalBatches(n)
       THEN /\ calls' = [calls EXCEPT ![c] =
                 [@ EXCEPT !.pc = "await", !.n = n, !.cb = cb, !.i = 0,
                           !.issued = 1]]
            /\ isImporting' = TRUE
            /\ importProgress' = 0
            /\ UNCHANGED <<entries, error>>
       ELSE /\ calls' = [calls EXCEPT ![c] =
                 [@ EXCEPT !.pc = "resolved", !.n = n, !.cb = cb]]
            /\ entries' = CloudPrepend(<<>>, entries)
            /\ error' = "null"
            /\ isImporting' = FALSE
            /\ importProgress' = 100
  /\ UNCHANGED <<store, user, remote, commitOrder, importVars, idVars, uiVars, cloudVars, persistVars>>

\* The remote table serves the insert in flight: it stores the rows and
\* answers with them, or stores nothing and answers with an error.  The code
\* that awaits the answer has not run yet.
CloudInsertServed(c, answer) ==
  /\ store = "cloud"
  /\ calls[c].pc = "await"
  /\ LET rec == calls[c]
         batch == BatchOf(NewEntries(c, rec.n), rec.i)
         answered == [rec EXCEPT !.pc = "served", !.answers = Append(@, answer)]
     IN  IF answer = "ok"
           THEN /\ remote' = remote \o batch
                /\ commitOrder' = Append(commitOrder, c)
                /\ calls' = [calls EXCEPT ![c] =
                               [answered EXCEPT !.commits = Append(@, batch)]]
           ELSE /\ calls' = [calls EXCEPT ![c] = answered]
                /\ UNCHANGED <<remote, commitOrder>>
  /\ UNCHANGED <<store, user, entries, isImporting, importProgress, error,
                 importVars, idVars, uiVars, cloudVars, persistVars>>

\* The awaited insert settles with the table's answer and the loop body goes
\* on to the next await or to the end of the call.
CloudInsertSettles(c) ==
  /\ store = "cloud"
  /\ calls[c].pc = "served"
  /\ LET rec == calls[c]
         i == rec.i
         totalBatches == TotalBatches(rec.n)
         batch == BatchOf(NewEntries(c, rec.n), i)
         result == InsertResult(rec.answers[Len(rec.answers)], batch)
         mappedBatch == result.data
         progress == Progress(i, totalBatches)
     IN  IF InsertThrows(result)
           THEN CloudFail(c, rec, result.error)
           ELSE LET pushed == [rec EXCEPT !.inserted = @ \o mappedBatch]
                    reported == IF rec.cb = "none" THEN pushed
                                ELSE [pushed EXCEPT
                                        !.reports = Append(@, progress)]
                IN  IF rec.cb = "throws"
                      THEN CloudFail(c, reported, CallbackError)
                      ELSE IF i + 1 < totalBatches
                      THEN /\ calls' = [calls EXCEPT ![c] =
                                [reported EXCEPT !.pc = "await", !.i = i + 1,
                                                 !.issued = @ + 1]]
                           /\ importProgress' = progress
                           /\ UNCHANGED <<entries, error, isImporting>>
                      ELSE /\ calls' = [calls EXCEPT ![c] =
                                [reported EXCEPT !.pc = "resolved"]]
                           /\ entries' = CloudPrepend(reported.inserted, entries)
                           /\ error' = "null"
                           /\ isImporting' = FALSE
                           /\ importProgress' = 100
  /\ UNCHANGED <<store, user, remote, commitOrder, importVars, idVars, uiVars,
                 cloudVars, persistVars>>

(***************************************************************************)
(* Specification of the stores                                             *)
(***************************************************************************)
Init ==
  /\ store \in {"local", "cloud"}
  /\ user = TRUE  \* the pages that use the stores are mounted under ProtectedRoute
  /\ entries = PriorEntries(MaxPrior)
  /\ remote = (IF store = "cloud" THEN PriorEntries(MaxPrior) ELSE <<>>)
  /\ isImporting = FALSE
  /\ importProgress = 0
  /\ error = "null"
  /\ calls = [c \in Callers |-> IdleCall]
  /\ commitOrder = <<>>
  /\ workbook = "sheet"
  /\ jsonData = <<>>
  /\ importPc = "idle"
  /\ importResult = NoResult
  /\ host = DefaultHost
  /\ clock = SteadyClock
  /\ rng = DefaultRng
  /\ removedIds = {}
  /\ pastImports = <<>>
  /\ file = NoFile
  /\ isProcessingFile = FALSE
  /\ toast = "none"
  /\ dateRange = NoRange
  /\ importCalendarOpen = FALSE
  /\ fileChooserOpen = FALSE
  /\ selectedMonth = Today
  /\ monthEntries = <<>>
  /\ fetch = IdleFetch
  /\ cloudOp = IdleOp
  /\ localStorage = (IF store = "local" THEN Item(entries) ELSE NoItem)
  /\ idb = [works |-> TRUE, item |-> NoItem, atStart |-> NoItem]
  /\ idbQueue = <<>>
  /\ migrate = SettledMigration
  /\ hydrate = SettledHydration
  /\ storageError = "null"
  /\ added = 0

Next ==
  \/ \E c \in Callers, n \in Lens, cb \in CallbackKinds : LocalAddEntriesBatch(c, n, cb)
  \/ \E c \in Callers : LocalResume(c)
  \/ \E importing \in BOOLEAN : SetImporting(importing)
  \/ LocalAddEntries
  \/ \E c \in Callers, n \in Lens, cb \in CallbackKinds : CloudAddEntriesBatch(c, n, cb)
  \/ \E c \in Callers, answer \in InsertAnswers : CloudInsertServed(c, answer)
  \/ \E c \in Callers : CloudInsertSettles(c)

Spec == Init /\ [][Next]_vars

(***************************************************************************)
(* Specification of the progress reports: one call on either store, of     *)
(* every number of batches up to MaxTotalBatches                           *)
(***************************************************************************)
MaxTotalBatches == 40

\* One length for every number of batches
ProgressLens == {(t - 1) * BATCH_SIZE + 1 : t \in 1..MaxTotalBatches}

NextProgress ==
  \/ \E n \in ProgressLens, cb \in CallbackKinds : LocalAddEntriesBatch(1, n, cb)
  \/ LocalResume(1)
  \/ \E n \in ProgressLens, cb \in CallbackKinds : CloudAddEntriesBatch(1, n, cb)
  \/ \E answer \in InsertAnswers : CloudInsertServed(1, answer)
  \/ CloudInsertSettles(1)

SpecProgress == Init /\ [][NextProgress]_vars

(***************************************************************************)
(* Properties of the batch importer                                        *)
(***************************************************************************)
InFlight(c) == calls[c].pc \in {"yield", "await", "served"}

Settled(c) == calls[c].pc \in {"resolved", "rejected"}

Range(s) == {s[k] : k \in 1..Len(s)}

IsSuffix(s, t) ==
  /\ Len(s) <= Len(t)
  /\ SubSeq(t, Len(t) - Len(s) + 1, Len(t)) = s

IsPrefix(s, t) ==
  /\ Len(s) <= Len(t)
  /\ SubSeq(t, 1, Len(s)) = s

\* ceil(n / BATCH_SIZE), stated by its defining inequalities
IsCeilOfBatches(t, n) ==
  /\ t * BATCH_SIZE >= n
  /\ (t - 1) * BATCH_SIZE < n

\* round(j / t * 100), stated by its defining inequalities (halves round up)
IsRoundedPercent(r, j, t) ==
  /\ 2 * r * t <= 200 * j + t
  /\ 2 * r * t > 200 * j - t

\* |r - 100 * j / t| <= 1/2: r is round(j / t * 100) or, where 100 * j / t
\* lies half-way between two integers, the integer below it
IsNearestPercent(r, j, t) ==
  /\ 2 * r * t <= 200 * j + t
  /\ 2 * r * t >= 200 * j - t

\* The step is one of call c's own steps.
StepOf(c) == calls'[c] # calls[c]

\* C1: a call of addEntriesBatch made while an earlier call on the same store
\* has not finished is rejected or deferred: no two calls are in progress at
\* once, and the batch commits of two calls never interleave.
C1_CallsNeverInterleave ==
  /\ \A c, d \in Callers : c # d => ~(InFlight(c) /\ InFlight(d))
  /\ \A p, q, r \in 1..Len(commitOrder) :
       p < q /\ q < r /\ commitOrder[p] = commitOrder[r]
         => commitOrder[q] = commitOrder[p]

\* C2: in the cloud store, when the insert of batch k fails the call has made
\* exactly k inserts (none for batches k+1..last), it is rejected (from the
\* moment the awaiting code receives the failure, which is the last answer
\* the call gets), and every record of batches 1..k-1 is in the remote table.
C2_FailedInsertAbortsAndKeepsCommitted ==
  \A c \in Callers :
    \A k \in 1..Len(calls[c].answers) :
      store = "cloud" /\ calls[c].answers[k] # "ok" =>
        LET E == NewEntries(c, calls[c].n)
            R == Range(remote)
        IN  /\ calls[c].pc \in {"served", "rejected"}
            /\ k = Len(calls[c].answers)
            /\ calls[c].issued = k
            /\ Len(calls[c].commits) = k - 1
            /\ \A x \in 1..((k - 1) * BATCH_SIZE) : E[x] \in R

\* C2 witness: the insert of the second batch failed after the first batch
\* was stored.
C2_Witness ==
  \E c \in Callers :
    /\ store = "cloud"
    /\ Len(calls[c].answers) = MaxBatches - 1
    /\ calls[c].answers[MaxBatches - 1] # "ok"
    /\ calls[c].n > (MaxBatches - 1) * BATCH_SIZE
    /\ calls[c].pc = "rejected"

\* C3: a resolved addEntriesBatch on n >= 1 records has made ceil(n/500)
\* commit calls, no batch is longer than 500, the batches together hold every
\* input record exactly once, and the step that resolves the call leaves
\* importProgress at 100.
C3_CommitsCoverInput ==
  \A c \in Callers :
    calls[c].pc = "resolved" /\ calls[c].n >= 1 =>
      LET E == NewEntries(c, calls[c].n)
          B == calls[c].commits
          lens == [j \in 1..Len(B) |-> Len(B[j])]
          all == UNION {Range(B[j]) : j \in 1..Len(B)}
      IN  /\ IsCeilOfBatches(Len(B), calls[c].n)
          /\ calls[c].issued = Len(B)
          /\ \A j \in 1..Len(B) : lens[j] <= BATCH_SIZE
          /\ \A j \in 1..Len(B) : Cardinality(Range(B[j])) = lens[j]
          /\ \A j, k \in 1..Len(B) : j # k => Range(B[j]) \cap Range(B[k]) = {}
          /\ all = Range(E)

C3_FinalProgressStep ==
  \A c \in Callers :
    calls[c].pc # "resolved" /\ calls'[c].pc = "resolved" /\ calls'[c].n >= 1
      => importProgress' = 100

C3_SuccessfulImport ==
  /\ []C3_CommitsCoverInput
  /\ [][C3_FinalProgressStep]_storeVars

\* C3 witness: a call with the largest input resolved.
C3_Witness ==
  \E c \in Callers :
    /\ calls[c].pc = "resolved"
    /\ Len(calls[c].commits) = MaxBatches
    /\ importProgress = 100

\* C4: isImporting is true while an insert of an import is in flight and
\* when an import commits its next batch after a yield, and it goes from true
\* to false only in a step in which a call has committed its last batch or in
\* which a call fails.
C4_FlagSetAtCommit ==
  \A c \in Callers : calls[c].pc = "yield" /\ StepOf(c) => isImporting

C4_FlagClearedOnlyAtEnd ==
  isImporting /\ ~isImporting' =>
    \E c \in Callers :
      /\ StepOf(c)
      /\ \/ Len(calls'[c].commits) = TotalBatches(calls'[c].n)
         \/ calls'[c].pc = "rejected"

C4_FlagHeldDuringImport ==
  /\ [](\A c \in Callers : calls[c].pc \in {"await", "served"} => isImporting)
  /\ [][C4_FlagSetAtCommit]_storeVars
  /\ [][C4_FlagClearedOnlyAtEnd]_storeVars

\* The step in which call c goes on after a commit: in the local store the
\* commit itself (the set of the batch and of importProgress and the call of
\* onProgress are one task), in the cloud store the settling of an insert
\* that the table has stored.
ProgressStepOf(c) ==
  \/ store = "local" /\ Len(calls'[c].commits) = Len(calls[c].commits) + 1
  \/ /\ store = "cloud"
     /\ calls[c].pc = "served"
     /\ calls[c].answers[Len(calls[c].answers)] = "ok"
     /\ StepOf(c)

\* C5 as stated, for the calls whose onProgress does not throw: the step
\* that follows the j-th commit of a call with t batches leaves
\* importProgress at round(j/t*100), halves rounded up, and passes that value
\* to onProgress as the call's j-th report.
C5_RoundedPercentStep ==
  \A c \in Callers :
    ProgressStepOf(c) /\ calls'[c].cb # "throws" =>
      LET j == Len(calls'[c].commits)
          t == TotalBatches(calls'[c].n)
      IN  /\ IsRoundedPercent(importProgress', j, t)
          /\ calls'[c].cb = "ok" =>
               calls'[c].reports = Append(calls[c].reports, importProgress')
          /\ calls'[c].cb = "none" => calls'[c].reports = <<>>

C5_ProgressIsRoundedPercent == [][C5_RoundedPercentStep]_storeVars

\* C5, amended: the step that follows the j-th commit of a call with t
\* batches passes to onProgress, as the call's j-th report, a value within
\* one half of 100*j/t (round(j/t*100), or the integer below it where
\* 100*j/t lies half-way between two integers), never lower than the report
\* before it, and 100 for j = t; the step leaves importProgress at that value,
\* except in the cloud store when onProgress throws, where it leaves 100.
C5_NearestPercentStep ==
  \A c \in Callers :
    ProgressStepOf(c) =>
      LET j == Len(calls'[c].commits)
          t == TotalBatches(calls'[c].n)
          cb == calls'[c].cb
          reports == calls'[c].reports
          failed == store = "cloud" /\ cb = "throws"
      IN  /\ IF failed THEN importProgress' = 100
                       ELSE IsNearestPercent(importProgress', j, t)
          /\ j = t => importProgress' = 100
          /\ IF cb = "none" THEN reports = <<>>
             ELSE /\ Len(reports) = j
                  /\ SubSeq(reports, 1, j - 1) = calls[c].reports
                  /\ IsNearestPercent(reports[j], j, t)
                  /\ j = t => reports[j] = 100
                  /\ j > 1 => reports[j - 1] <= reports[j]
                  /\ ~failed => reports[j] = importProgress'

C5_ProgressIsNearestPercent == [][C5_NearestPercentStep]_storeVars

\* C5 witness: a call has reported, and importProgress shows, the integer
\* below a value of 100*j/t that lies half-way between two integers (57 after
\* 23 of 40 batches).
C5_Witness ==
  \E c \in Callers :
    LET j == Len(calls[c].commits)
        t == TotalBatches(calls[c].n)
    IN  /\ calls[c].cb = "ok"
        /\ j >= 1
        /\ Len(calls[c].reports) = j
        /\ calls[c].reports[j] = importProgress
        /\ 2 * importProgress * t = 200 * j - t

\* C6: in the cloud store, the step in which a failed insert settles rejects
\* the call with the insert's error and sets the error state to a message.
C6_FailedInsertStep ==
  \A c \in Callers :
    /\ store = "cloud"
    /\ calls[c].pc = "served"
    /\ calls[c].answers[Len(calls[c].answers)] # "ok"
    /\ StepOf(c)
    => /\ calls'[c].pc = "rejected"
       /\ calls'[c].thrown = InsertError(calls[c].answers[Len(calls[c].answers)])
       /\ error' # "null"

C6_StoreFailureSurfaces == [][C6_FailedInsertStep]_storeVars

\* C6 witness: a call was rejected with an insert error and the error state
\* holds a message.
C6_Witness ==
  \E c \in Callers :
    /\ calls[c].pc = "rejected"
    /\ calls[c].thrown.from = "insert"
    /\ error # "null"

\* C7: the j-th batch a call commits holds the source records with indices
\* [500*(j-1), min(500*j, n)) in source order, and a call has at most one
\* commit in progress, which is the one after its last completed commit.
C7_BatchesInSourceOrder ==
  \A c \in Callers :
    LET E == NewEntries(c, calls[c].n)
        B == calls[c].commits
    IN  /\ \A j \in 1..Len(B) :
             LET lo == BATCH_SIZE * (j - 1)
                 hi == Min(BATCH_SIZE * j, calls[c].n)
             IN  /\ Len(B[j]) = hi - lo
                 /\ \A k \in 1..(hi - lo) : B[j][k] = E[lo + k]
        /\ calls[c].pc = "await" => calls[c].issued = Len(B) + 1
        /\ calls[c].pc # "await" /\ (\A k \in 1..Len(calls[c].answers) :
                                        calls[c].answers[k] = "ok")
             => calls[c].issued = Len(B)
        /\ calls[c].issued <= Len(B) + 1

\* C7 witness: a call has committed its first two batches and is waiting to
\* commit the third.
C7_Witness ==
  \E c \in Callers :
    /\ InFlight(c)
    /\ Len(calls[c].commits) = MaxBatches - 1

\* C8: no step of addEntriesBatch changes or removes an entry that is in the
\* store (or a row that is in the remote table): the entries before the step
\* are the tail of the entries after it, in the same order.
C8_StepKeepsEntries ==
  \A c \in Callers :
    StepOf(c) => IsSuffix(entries, entries') /\ IsPrefix(remote, remote')

C8_ImportOnlyAdds == [][C8_StepKeepsEntries]_storeVars

\* C8 witness: a multi-batch import has resolved in a store that held entries
\* before it, and they are still the tail of the list.
C8_Witness ==
  \E c \in Callers :
    /\ calls[c].pc = "resolved"
    /\ Len(calls[c].commits) > 1
    /\ Len(entries) > calls[c].n
    /\ IsSuffix(PriorEntries(MaxPrior), entries)

(***************************************************************************)
(* Strings and numbers of the row mapper                                   *)
(***************************************************************************)
\* A string is the sequence of its UTF-16 code units.  A code unit is written
\* as the one-character string of it, or, where a string of this module
\* cannot hold the character (the code units beyond U+007F whose low byte is
\* below 80 hexadecimal, and the surrogates), by its name "U+hhhh".

\* The characters String.prototype.trim and /\s/ take for white space: space,
\* tab, line feed, carriage return, form feed, vertical tab (U+000B), and
\* U+00A0, U+1680, U+2000..U+200A, U+2028, U+2029, U+202F, U+205F, U+3000
\* and U+FEFF
Whitespace ==
  {" ", "\t", "\n", "\r", "\f",
   "", " ", " ", "﻿",
   "U+2000", "U+2001", "U+2002", "U+2003", "U+2004", "U+2005", "U+2006",
   "U+2007", "U+2008", "U+2009", "U+200A", "U+2028", "U+2029", "U+202F",
   "U+205F", "U+3000"}

DigitChars == {"0", "1", "2", "3", "4", "5", "6", "7", "8", "9"}

DigitValue(ch) ==
  CASE ch = "0" -> 0 [] ch = "1" -> 1 [] ch = "2" -> 2 [] ch = "3" -> 3
    [] ch = "4" -> 4 [] ch = "5" -> 5 [] ch = "6" -> 6 [] ch = "7" -> 7
    [] ch = "8" -> 8 [] ch = "9" -> 9

\* String.prototype.trim
RECURSIVE Trim(_)
Trim(chars) ==
  IF chars = <<>> THEN <<>>
  ELSE IF Head(chars) \in Whitespace THEN Trim(Tail(chars))
  ELSE IF chars[Len(chars)] \in Whitespace
    THEN Trim(SubSeq(chars, 1, Len(chars) - 1))
  ELSE chars

\* String(value) for the values a cell lookup yields
StringOf(value) ==
  IF value.t = "string" THEN value.s
  ELSE <<"u", "n", "d", "e", "f", "i", "n", "e", "d">>

\* JavaScript truthiness
Truthy(value) ==
  \/ value.t = "string" /\ value.s # <<>>
  \/ value.t = "number" /\ ~value.nan /\ value.num # 0

\* a || b || ... : the first truthy operand, else the last operand
RECURSIVE OrChain(_)
OrChain(operands) ==
  IF Len(operands) = 1 \/ Truthy(Head(operands))
    THEN Head(operands)
    ELSE OrChain(Tail(operands))

\* row[key]: the cell under that header, undefined when the sheet has no
\* such column
Cell(row, key) ==
  IF key \in DOMAIN row THEN StringValue(row[key]) ELSE Undefined

Number_isFinite(value) == value.t = "number" /\ ~value.nan

RECURSIVE DigitsValue(_, _)
DigitsValue(chars, acc) ==
  IF chars = <<>> THEN acc
  ELSE DigitsValue(Tail(chars), 10 * acc + DigitValue(Head(chars)))

RECURSIVE PowerOfTen(_)
PowerOfTen(k) == IF k = 0 THEN 1 ELSE 10 * PowerOfTen(k - 1)

AllDigits(chars) == \A k \in 1..Len(chars) : chars[k] \in DigitChars

\* The decimal literals on which parseFloat and Number agree:
\* an optional sign, digits, and optionally a point and more digits.
ParseFloat(chars) ==
  LET negative == chars # <<>> /\ Head(chars) = "-"
      body == IF negative THEN Tail(chars) ELSE chars
      points == {k \in 1..Len(body) : body[k] = "."}
      point == IF points = {} THEN Len(body) + 1
               ELSE CHOOSE k \in points : \A j \in points : k <= j
      whole == SubSeq(body, 1, point - 1)
      fraction == SubSeq(body, point + 1, Len(body))
      magnitude == DigitsValue(whole \o fraction, 0)
  IN IF /\ whole # <<>>
        /\ AllDigits(whole)
        /\ AllDigits(fraction)
        /\ (points # {} => fraction # <<>>)
       THEN NumberValue(IF negative THEN 0 - magnitude ELSE magnitude,
                        PowerOfTen(Len(fraction)))
       ELSE NaN

\* The currency of the amounts: its symbol, and its name as formatCurrency
\* gives it to Intl.NumberFormat
CurrencyMarkers == [symbol |-> "₱", name |-> <<"P", "H", "P">>]

\* replaceAll(token, ''): the text without the occurrences of the token,
\* taken from the left
RECURSIVE RemoveToken(_, _)
RemoveToken(chars, token) ==
  IF Len(chars) < Len(token) THEN chars
  ELSE IF SubSeq(chars, 1, Len(token)) = token
    THEN RemoveToken(SubSeq(chars, Len(token) + 1, Len(chars)), token)
  ELSE <<Head(chars)>> \o RemoveToken(Tail(chars), token)

\* parseLooseNumber of utils/excel/parse: the text without white space,
\* without the currency's symbol and name, without % and without commas;
\* a text in parentheses is negative
ParseLooseNumber(value) ==
  IF value.t = "number" THEN value
  ELSE
    LET unspaced == SelectSeq(StringOf(value), LAMBDA ch : ch \notin Whitespace)
        unmarked == RemoveToken(
                      SelectSeq(unspaced, LAMBDA ch : ch # CurrencyMarkers.symbol),
                      CurrencyMarkers.name)
        stripped == SelectSeq(unmarked, LAMBDA ch : ch \notin {"%", ","})
        wrapped == /\ Len(stripped) >= 2
                   /\ Head(stripped) = "("
                   /\ stripped[Len(stripped)] = ")"
        signed == IF wrapped
                    THEN <<"-">> \o SubSeq(stripped, 2, Len(stripped) - 1)
                    ELSE stripped
    IN ParseFloat(signed)

NoDay == [isNull |-> TRUE, day |-> 0]

\* parseDayNumber of utils/excel/parse
ParseDayNumberWholeText(value) ==
  LET text == Trim(StringOf(value))
      day == DigitsValue(text, 0)
  IN IF value.t = "undefined" \/ text = <<>> \/ ~AllDigits(text)
          \/ Len(text) > 2 \/ day < 1 \/ day > 31
       THEN NoDay
       ELSE [isNull |-> FALSE, day |-> day]

ParseDayNumber(value) ==
  LET text == Trim(StringOf(value))
      run == IF Len(text) >= 2 /\ text[1] \in DigitChars /\ text[2] \in DigitChars
               THEN SubSeq(text, 1, 2)
             ELSE IF Len(text) >= 1 /\ text[1] \in DigitChars
               THEN SubSeq(text, 1, 1)
             ELSE <<>>
      day == DigitsValue(run, 0)
  IN IF value.t = "undefined" \/ run = <<>> \/ day < 1 \/ day > 31
       THEN NoDay
       ELSE [isNull |-> FALSE, day |-> day]

(***************************************************************************)
(* importFromExcel: the row mapper                                         *)
(***************************************************************************)
NameAliases == <<"Name", "name", "NAME">>
ProductAliases == <<"Product", "product", "PRODUCT">>
BranchAliases == <<"Branch", "branch", "BRANCH">>
QuantityAliases == <<"Quantity", "QTY", "qty", "QUANTITY">>
PriceAliases == <<"Price", "price", "PRICE">>
DiscountAliases == <<"Discount", "Discount %", "discount", "DISCOUNT">>
AmountAliases == <<"Amount", "amount", "AMOUNT">>
DateAliases == <<"Date", "date", "DATE">>

Cells(row, aliases) == [k \in 1..Len(aliases) |-> Cell(row, aliases[k])]

\* String(row[..] || row[..] || row[..] || '').trim()
TextField(row, aliases) ==
  Trim(StringOf(OrChain(Cells(row, aliases) \o <<StringValue(<<>>)>>)))

\* row[..] || row[..] || ... || fallback
RawField(row, aliases, fallback) ==
  OrChain(Cells(row, aliases) \o <<NumberValue(fallback, 1)>>)

DayValue(row) == OrChain(Cells(row, DateAliases))

RowNumOfIndex(index) == index + 1

RowNum(index) == index + 2

RowError(rowNum, text, value) == [row |-> rowNum, text |-> text, value |-> value]

(***************************************************************************)
(* Category inference (utils/formatters.ts, extractCategoryFromProduct)    *)
(***************************************************************************)
ALLOWED_CATEGORIES ==
  <<<<"M", "H", "B">>, <<"M", "L", "P">>, <<"M", "S", "H">>, <<"M", "U", "M">>>>

\* String.prototype.toUpperCase works on code points and puts in the place of
\* each the full upper-case mapping of the Unicode character database
\* (UnicodeData.txt and SpecialCasing.txt without the language-specific and
\* the context-specific rules) in the version of the engine the page runs
\* in.  The table lists every code point that has a mapping other than
\* itself, as UTF-16 code units, with what takes its place: one code point,
\* or up to three ("ß" gives "SS", "ǰ" gives "J" and the combining caron
\* U+030C).  A code point beyond U+FFFF is the two code units of its
\* surrogate pair.  unicode14 holds the mappings of the versions 14.0 to
\* 15.1, unicode16 those that version 16.0 adds to them and unicode17 those
\* that version 17.0 adds to these.
UpperCaseTable ==
  [unicode14 |->
  <<<<<<"a">>, <<"A">>>>, <<<<"b">>, <<"B">>>>, <<<<"c">>, <<"C">>>>, <<<<"d">>, <<"D">>>>,
   <<<<"e">>, <<"E">>>>, <<<<"f">>, <<"F">>>>, <<<<"g">>, <<"G">>>>, <<<<"h">>, <<"H">>>>,
   <<<<"i">>, <<"I">>>>, <<<<"j">>, <<"J">>>>, <<<<"k">>, <<"K">>>>, <<<<"l">>, <<"L">>>>,
   <<<<"m">>, <<"M">>>>, <<<<"n">>, <<"N">>>>, <<<<"o">>, <<"O">>>>, <<<<"p">>, <<"P">>>>,
   <<<<"q">>, <<"Q">>>>, <<<<"r">>, <<"R">>>>, <<<<"s">>, <<"S">>>>, <<<<"t">>, <<"T">>>>,
   <<<<"u">>, <<"U">>>>, <<<<"v">>, <<"V">>>>, <<<<"w">>, <<"W">>>>, <<<<"x">>, <<"X">>>>,
   <<<<"y">>, <<"Y">>>>, <<<<"z">>, <<"Z">>>>, <<<<"µ">>, <<"Μ">>>>, <<<<"ß">>, <<"S", "S">>>>,
   <<<<"à">>, <<"À">>>>, <<<<"á">>, <<"Á">>>>, <<<<"â">>, <<"Â">>>>, <<<<"ã">>, <<"Ã">>>>,
   <<<<"ä">>, <<"Ä">>>>, <<<<"å">>, <<"Å">>>>, <<<<"æ">>, <<"Æ">>>>, <<<<"ç">>, <<"Ç">>>>,
   <<<<"è">>, <<"È">>>>, <<<<"é">>, <<"É">>>>, <<<<"ê">>, <<"Ê">>>>, <<<<"ë">>, <<"Ë">>>>,
   <<<<"ì">>, <<"Ì">>>>, <<<<"í">>, <<"Í">>>>, <<<<"î">>, <<"Î">>>>, <<<<"ï">>, <<"Ï">>>>,
   <<<<"ð">>, <<"Ð">>>>, <<<<"ñ">>, <<"Ñ">>>>, <<<<"ò">>, <<"Ò">>>>, <<<<"ó">>, <<"Ó">>>>,
   <<<<"ô">>, <<"Ô">>>>, <<<<"õ">>, <<"Õ">>>>, <<<<"ö">>, <<"Ö">>>>, <<<<"ø">>, <<"Ø">>>>,
   <<<<"ù">>, <<"Ù">>>>, <<<<"ú">>, <<"Ú">>>>, <<<<"û">>, <<"Û">>>>, <<<<"ü">>, <<"Ü">>>>,
   <<<<"ý">>, <<"Ý">>>>, <<<<"þ">>, <<"Þ">>>>, <<<<"ÿ">>, <<"U+0178">>>>,
   <<<<"U+0101">>, <<"U+0100">>>>, <<<<"U+0103">>, <<"U+0102">>>>, <<<<"U+0105">>, <<"U+0104">>>>,
   <<<<"U+0107">>, <<"U+0106">>>>, <<<<"U+0109">>, <<"U+0108">>>>, <<<<"U+010B">>, <<"U+010A">>>>,
   <<<<"U+010D">>, <<"U+010C">>>>, <<<<"U+010F">>, <<"U+010E">>>>, <<<<"U+0111">>, <<"U+0110">>>>,
   <<<<"U+0113">>, <<"U+0112">>>>, <<<<"U+0115">>, <<"U+0114">>>>, <<<<"U+0117">>, <<"U+0116">>>>,
   <<<<"U+0119">>, <<"U+0118">>>>, <<<<"U+011B">>, <<"U+011A">>>>, <<<<"U+011D">>, <<"U+011C">>>>,
   <<<<"U+011F">>, <<"U+011E">>>>, <<<<"U+0121">>, <<"U+0120">>>>, <<<<"U+0123">>, <<"U+0122">>>>,
   <<<<"U+0125">>, <<"U+0124">>>>, <<<<"U+0127">>, <<"U+0126">>>>, <<<<"U+0129">>, <<"U+0128">>>>,
   <<<<"U+012B">>, <<"U+012A">>>>, <<<<"U+012D">>, <<"U+012C">>>>, <<<<"U+012F">>, <<"U+012E">>>>,
   <<<<"U+0131">>, <<"I">>>>, <<<<"U+0133">>, <<"U+0132">>>>, <<<<"U+0135">>, <<"U+0134">>>>,
   <<<<"U+0137">>, <<"U+0136">>>>, <<<<"U+013A">>, <<"U+0139">>>>, <<<<"U+013C">>, <<"U+013B">>>>,
   <<<<"U+013E">>, <<"U+013D">>>>, <<<<"U+0140">>, <<"U+013F">>>>, <<<<"U+0142">>, <<"U+0141">>>>,
   <<<<"U+0144">>, <<"U+0143">>>>, <<<<"U+0146">>, <<"U+0145">>>>, <<<<"U+0148">>, <<"U+0147">>>>,
   <<<<"U+0149">>, <<"ʼ", "N">>>>, <<<<"U+014B">>, <<"U+014A">>>>, <<<<"U+014D">>, <<"U+014C">>>>,
   <<<<"U+014F">>, <<"U+014E">>>>, <<<<"U+0151">>, <<"U+0150">>>>, <<<<"U+0153">>, <<"U+0152">>>>,
   <<<<"U+0155">>, <<"U+0154">>>>, <<<<"U+0157">>, <<"U+0156">>>>, <<<<"U+0159">>, <<"U+0158">>>>,
   <<<<"U+015B">>, <<"U+015A">>>>, <<<<"U+015D">>, <<"U+015C">>>>, <<<<"U+015F">>, <<"U+015E">>>>,
   <<<<"U+0161">>, <<"U+0160">>>>, <<<<"U+0163">>, <<"U+0162">>>>, <<<<"U+0165">>, <<"U+0164">>>>,
   <<<<"U+0167">>, <<"U+0166">>>>, <<<<"U+0169">>, <<"U+0168">>>>, <<<<"U+016B">>, <<"U+016A">>>>,
   <<<<"U+016D">>, <<"U+016C">>>>, <<<<"U+016F">>, <<"U+016E">>>>, <<<<"U+0171">>, <<"U+0170">>>>,
   <<<<"U+0173">>, <<"U+0172">>>>, <<<<"U+0175">>, <<"U+0174">>>>, <<<<"U+0177">>, <<"U+0176">>>>,
   <<<<"U+017A">>, <<"U+0179">>>>, <<<<"U+017C">>, <<"U+017B">>>>, <<<<"U+017E">>, <<"U+017D">>>>,
   <<<<"U+017F">>, <<"S">>>>, <<<<"ƀ">>, <<"U+0243">>>>, <<<<"ƃ">>, <<"Ƃ">>>>, <<<<"ƅ">>, <<"Ƅ">>>>,
   <<<<"ƈ">>, <<"Ƈ">>>>, <<<<"ƌ">>, <<"Ƌ">>>>, <<<<"ƒ">>, <<"Ƒ">>>>, <<<<"ƕ">>, <<"Ƕ">>>>,
   <<<<"ƙ">>, <<"Ƙ">>>>, <<<<"ƚ">>, <<"U+023D">>>>, <<<<"ƞ">>, <<"U+0220">>>>, <<<<"ơ">>, <<"Ơ">>>>,
   <<<<"ƣ">>, <<"Ƣ">>>>, <<<<"ƥ">>, <<"Ƥ">>>>, <<<<"ƨ">>, <<"Ƨ">>>>, <<<<"ƭ">>, <<"Ƭ">>>>,
   <<<<"ư">>, <<"Ư">>>>, <<<<"ƴ">>, <<"Ƴ">>>>, <<<<"ƶ">>, <<"Ƶ">>>>, <<<<"ƹ">>, <<"Ƹ">>>>,
   <<<<"ƽ">>, <<"Ƽ">>>>, <<<<"ƿ">>, <<"Ƿ">>>>, <<<<"ǅ">>, <<"Ǆ">>>>, <<<<"ǆ">>, <<"Ǆ">>>>,
   <<<<"ǈ">>, <<"Ǉ">>>>, <<<<"ǉ">>, <<"Ǉ">>>>, <<<<"ǋ">>, <<"Ǌ">>>>, <<<<"ǌ">>, <<"Ǌ">>>>,
   <<<<"ǎ">>, <<"Ǎ">>>>, <<<<"ǐ">>, <<"Ǐ">>>>, <<<<"ǒ">>, <<"Ǒ">>>>, <<<<"ǔ">>, <<"Ǔ">>>>,
   <<<<"ǖ">>, <<"Ǖ">>>>, <<<<"ǘ">>, <<"Ǘ">>>>, <<<<"ǚ">>, <<"Ǚ">>>>, <<<<"ǜ">>, <<"Ǜ">>>>,
   <<<<"ǝ">>, <<"Ǝ">>>>, <<<<"ǟ">>, <<"Ǟ">>>>, <<<<"ǡ">>, <<"Ǡ">>>>, <<<<"ǣ">>, <<"Ǣ">>>>,
   <<<<"ǥ">>, <<"Ǥ">>>>, <<<<"ǧ">>, <<"Ǧ">>>>, <<<<"ǩ">>, <<"Ǩ">>>>, <<<<"ǫ">>, <<"Ǫ">>>>,
   <<<<"ǭ">>, <<"Ǭ">>>>, <<<<"ǯ">>, <<"Ǯ">>>>, <<<<"ǰ">>, <<"J", "U+030C">>>>, <<<<"ǲ">>, <<"Ǳ">>>>,
   <<<<"ǳ">>, <<"Ǳ">>>>, <<<<"ǵ">>, <<"Ǵ">>>>, <<<<"ǹ">>, <<"Ǹ">>>>, <<<<"ǻ">>, <<"Ǻ">>>>,
   <<<<"ǽ">>, <<"Ǽ">>>>, <<<<"ǿ">>, <<"Ǿ">>>>, <<<<"U+0201">>, <<"U+0200">>>>,
   <<<<"U+0203">>, <<"U+0202">>>>, <<<<"U+0205">>, <<"U+0204">>>>, <<<<"U+0207">>, <<"U+0206">>>>,
   <<<<"U+0209">>, <<"U+0208">>>>, <<<<"U+020B">>, <<"U+020A">>>>, <<<<"U+020D">>, <<"U+020C">>>>,
   <<<<"U+020F">>, <<"U+020E">>>>, <<<<"U+0211">>, <<"U+0210">>>>, <<<<"U+0213">>, <<"U+0212">>>>,
   <<<<"U+0215">>, <<"U+0214">>>>, <<<<"U+0217">>, <<"U+0216">>>>, <<<<"U+0219">>, <<"U+0218">>>>,
   <<<<"U+021B">>, <<"U+021A">>>>, <<<<"U+021D">>, <<"U+021C">>>>, <<<<"U+021F">>, <<"U+021E">>>>,
   <<<<"U+0223">>, <<"U+0222">>>>, <<<<"U+0225">>, <<"U+0224">>>>, <<<<"U+0227">>, <<"U+0226">>>>,
   <<<<"U+0229">>, <<"U+0228">>>>, <<<<"U+022B">>, <<"U+022A">>>>, <<<<"U+022D">>, <<"U+022C">>>>,
   <<<<"U+022F">>, <<"U+022E">>>>, <<<<"U+0231">>, <<"U+0230">>>>, <<<<"U+0233">>, <<"U+0232">>>>,
   <<<<"U+023C">>, <<"U+023B">>>>, <<<<"U+023F">>, <<"U+2C7E">>>>, <<<<"U+0240">>, <<"U+2C7F">>>>,
   <<<<"U+0242">>, <<"U+0241">>>>, <<<<"U+0247">>, <<"U+0246">>>>, <<<<"U+0249">>, <<"U+0248">>>>,
   <<<<"U+024B">>, <<"U+024A">>>>, <<<<"U+024D">>, <<"U+024C">>>>, <<<<"U+024F">>, <<"U+024E">>>>,
   <<<<"U+0250">>, <<"U+2C6F">>>>, <<<<"U+0251">>, <<"U+2C6D">>>>, <<<<"U+0252">>, <<"U+2C70">>>>,
   <<<<"U+0253">>, <<"Ɓ">>>>, <<<<"U+0254">>, <<"Ɔ">>>>, <<<<"U+0256">>, <<"Ɖ">>>>,
   <<<<"U+0257">>, <<"Ɗ">>>>, <<<<"U+0259">>, <<"Ə">>>>, <<<<"U+025B">>, <<"Ɛ">>>>,
   <<<<"U+025C">>, <<"Ɜ">>>>, <<<<"U+0260">>, <<"Ɠ">>>>, <<<<"U+0261">>, <<"Ɡ">>>>,
   <<<<"U+0263">>, <<"Ɣ">>>>, <<<<"U+0265">>, <<"Ɥ">>>>, <<<<"U+0266">>, <<"Ɦ">>>>,
   <<<<"U+0268">>, <<"Ɨ">>>>, <<<<"U+0269">>, <<"Ɩ">>>>, <<<<"U+026A">>, <<"Ɪ">>>>,
   <<<<"U+026B">>, <<"U+2C62">>>>, <<<<"U+026C">>, <<"Ɬ">>>>, <<<<"U+026F">>, <<"Ɯ">>>>,
   <<<<"U+0271">>, <<"U+2C6E">>>>, <<<<"U+0272">>, <<"Ɲ">>>>, <<<<"U+0275">>, <<"Ɵ">>>>,
   <<<<"U+027D">>, <<"U+2C64">>>>, <<<<"ʀ">>, <<"Ʀ">>>>, <<<<"ʂ">>, <<"Ʂ">>>>, <<<<"ʃ">>, <<"Ʃ">>>>,
   <<<<"ʇ">>, <<"Ʇ">>>>, <<<<"ʈ">>, <<"Ʈ">>>>, <<<<"ʉ">>, <<"U+0244">>>>, <<<<"ʊ">>, <<"Ʊ">>>>,
   <<<<"ʋ">>, <<"Ʋ">>>>, <<<<"ʌ">>, <<"U+0245">>>>, <<<<"ʒ">>, <<"Ʒ">>>>, <<<<"ʝ">>, <<"Ʝ">>>>,
   <<<<"ʞ">>, <<"Ʞ">>>>, <<<<"U+0345">>, <<"Ι">>>>, <<<<"U+0371">>, <<"U+0370">>>>,
   <<<<"U+0373">>, <<"U+0372">>>>, <<<<"U+0377">>, <<"U+0376">>>>, <<<<"U+037B">>, <<"Ͻ">>>>,
   <<<<"U+037C">>, <<"Ͼ">>>>, <<<<"U+037D">>, <<"Ͽ">>>>, <<<<"ΐ">>, <<"Ι", "U+0308", "U+0301">>>>,
   <<<<"ά">>, <<"Ά">>>>, <<<<"έ">>, <<"Έ">>>>, <<<<"ή">>, <<"Ή">>>>, <<<<"ί">>, <<"Ί">>>>,
   <<<<"ΰ">>, <<"Υ", "U+0308", "U+0301">>>>, <<<<"α">>, <<"Α">>>>, <<<<"β">>, <<"Β">>>>,
   <<<<"γ">>, <<"Γ">>>>, <<<<"δ">>, <<"Δ">>>>, <<<<"ε">>, <<"Ε">>>>, <<<<"ζ">>, <<"Ζ">>>>,
   <<<<"η">>, <<"Η">>>>, <<<<"θ">>, <<"Θ">>>>, <<<<"ι">>, <<"Ι">>>>, <<<<"κ">>, <<"Κ">>>>,
   <<<<"λ">>, <<"Λ">>>>, <<<<"μ">>, <<"Μ">>>>, <<<<"ν">>, <<"Ν">>>>, <<<<"ξ">>, <<"Ξ">>>>,
   <<<<"ο">>, <<"Ο">>>>, <<<<"π">>, <<"Π">>>>, <<<<"ρ">>, <<"Ρ">>>>, <<<<"ς">>, <<"Σ">>>>,
   <<<<"σ">>, <<"Σ">>>>, <<<<"τ">>, <<"Τ">>>>, <<<<"υ">>, <<"Υ">>>>, <<<<"φ">>, <<"Φ">>>>,
   <<<<"χ">>, <<"Χ">>>>, <<<<"ψ">>, <<"Ψ">>>>, <<<<"ω">>, <<"Ω">>>>, <<<<"ϊ">>, <<"Ϊ">>>>,
   <<<<"ϋ">>, <<"Ϋ">>>>, <<<<"ό">>, <<"Ό">>>>, <<<<"ύ">>, <<"Ύ">>>>, <<<<"ώ">>, <<"Ώ">>>>,
   <<<<"ϐ">>, <<"Β">>>>, <<<<"ϑ">>, <<"Θ">>>>, <<<<"ϕ">>, <<"Φ">>>>, <<<<"ϖ">>, <<"Π">>>>,
   <<<<"ϗ">>, <<"Ϗ">>>>, <<<<"ϙ">>, <<"Ϙ">>>>, <<<<"ϛ">>, <<"Ϛ">>>>, <<<<"ϝ">>, <<"Ϝ">>>>,
   <<<<"ϟ">>, <<"Ϟ">>>>, <<<<"ϡ">>, <<"Ϡ">>>>, <<<<"ϣ">>, <<"Ϣ">>>>, <<<<"ϥ">>, <<"Ϥ">>>>,
   <<<<"ϧ">>, <<"Ϧ">>>>, <<<<"ϩ">>, <<"Ϩ">>>>, <<<<"ϫ">>, <<"Ϫ">>>>, <<<<"ϭ">>, <<"Ϭ">>>>,
   <<<<"ϯ">>, <<"Ϯ">>>>, <<<<"ϰ">>, <<"Κ">>>>, <<<<"ϱ">>, <<"Ρ">>>>, <<<<"ϲ">>, <<"Ϲ">>>>,
   <<<<"ϳ">>, <<"U+037F">>>>, <<<<"ϵ">>, <<"Ε">>>>, <<<<"ϸ">>, <<"Ϸ">>>>, <<<<"ϻ">>, <<"Ϻ">>>>,
   <<<<"U+0430">>, <<"U+0410">>>>, <<<<"U+0431">>, <<"U+0411">>>>, <<<<"U+0432">>, <<"U+0412">>>>,
   <<<<"U+0433">>, <<"U+0413">>>>, <<<<"U+0434">>, <<"U+0414">>>>, <<<<"U+0435">>, <<"U+0415">>>>,
   <<<<"U+0436">>, <<"U+0416">>>>, <<<<"U+0437">>, <<"U+0417">>>>, <<<<"U+0438">>, <<"U+0418">>>>,
   <<<<"U+0439">>, <<"U+0419">>>>, <<<<"U+043A">>, <<"U+041A">>>>, <<<<"U+043B">>, <<"U+041B">>>>,
   <<<<"U+043C">>, <<"U+041C">>>>, <<<<"U+043D">>, <<"U+041D">>>>, <<<<"U+043E">>, <<"U+041E">>>>,
   <<<<"U+043F">>, <<"U+041F">>>>, <<<<"U+0440">>, <<"U+0420">>>>, <<<<"U+0441">>, <<"U+0421">>>>,
   <<<<"U+0442">>, <<"U+0422">>>>, <<<<"U+0443">>, <<"U+0423">>>>, <<<<"U+0444">>, <<"U+0424">>>>,
   <<<<"U+0445">>, <<"U+0425">>>>, <<<<"U+0446">>, <<"U+0426">>>>, <<<<"U+0447">>, <<"U+0427">>>>,
   <<<<"U+0448">>, <<"U+0428">>>>, <<<<"U+0449">>, <<"U+0429">>>>, <<<<"U+044A">>, <<"U+042A">>>>,
   <<<<"U+044B">>, <<"U+042B">>>>, <<<<"U+044C">>, <<"U+042C">>>>, <<<<"U+044D">>, <<"U+042D">>>>,
   <<<<"U+044E">>, <<"U+042E">>>>, <<<<"U+044F">>, <<"U+042F">>>>, <<<<"U+0450">>, <<"U+0400">>>>,
   <<<<"U+0451">>, <<"U+0401">>>>, <<<<"U+0452">>, <<"U+0402">>>>, <<<<"U+0453">>, <<"U+0403">>>>,
   <<<<"U+0454">>, <<"U+0404">>>>, <<<<"U+0455">>, <<"U+0405">>>>, <<<<"U+0456">>, <<"U+0406">>>>,
   <<<<"U+0457">>, <<"U+0407">>>>, <<<<"U+0458">>, <<"U+0408">>>>, <<<<"U+0459">>, <<"U+0409">>>>,
   <<<<"U+045A">>, <<"U+040A">>>>, <<<<"U+045B">>, <<"U+040B">>>>, <<<<"U+045C">>, <<"U+040C">>>>,
   <<<<"U+045D">>, <<"U+040D">>>>, <<<<"U+045E">>, <<"U+040E">>>>, <<<<"U+045F">>, <<"U+040F">>>>,
   <<<<"U+0461">>, <<"U+0460">>>>, <<<<"U+0463">>, <<"U+0462">>>>, <<<<"U+0465">>, <<"U+0464">>>>,
   <<<<"U+0467">>, <<"U+0466">>>>, <<<<"U+0469">>, <<"U+0468">>>>, <<<<"U+046B">>, <<"U+046A">>>>,
   <<<<"U+046D">>, <<"U+046C">>>>, <<<<"U+046F">>, <<"U+046E">>>>, <<<<"U+0471">>, <<"U+0470">>>>,
   <<<<"U+0473">>, <<"U+0472">>>>, <<<<"U+0475">>, <<"U+0474">>>>, <<<<"U+0477">>, <<"U+0476">>>>,
   <<<<"U+0479">>, <<"U+0478">>>>, <<<<"U+047B">>, <<"U+047A">>>>, <<<<"U+047D">>, <<"U+047C">>>>,
   <<<<"U+047F">>, <<"U+047E">>>>, <<<<"ҁ">>, <<"Ҁ">>>>, <<<<"ҋ">>, <<"Ҋ">>>>, <<<<"ҍ">>, <<"Ҍ">>>>,
   <<<<"ҏ">>, <<"Ҏ">>>>, <<<<"ґ">>, <<"Ґ">>>>, <<<<"ғ">>, <<"Ғ">>>>, <<<<"ҕ">>, <<"Ҕ">>>>,
   <<<<"җ">>, <<"Җ">>>>, <<<<"ҙ">>, <<"Ҙ">>>>, <<<<"қ">>, <<"Қ">>>>, <<<<"ҝ">>, <<"Ҝ">>>>,
   <<<<"ҟ">>, <<"Ҟ">>>>, <<<<"ҡ">>, <<"Ҡ">>>>, <<<<"ң">>, <<"Ң">>>>, <<<<"ҥ">>, <<"Ҥ">>>>,
   <<<<"ҧ">>, <<"Ҧ">>>>, <<<<"ҩ">>, <<"Ҩ">>>>, <<<<"ҫ">>, <<"Ҫ">>>>, <<<<"ҭ">>, <<"Ҭ">>>>,
   <<<<"ү">>, <<"Ү">>>>, <<<<"ұ">>, <<"Ұ">>>>, <<<<"ҳ">>, <<"Ҳ">>>>, <<<<"ҵ">>, <<"Ҵ">>>>,
   <<<<"ҷ">>, <<"Ҷ">>>>, <<<<"ҹ">>, <<"Ҹ">>>>, <<<<"һ">>, <<"Һ">>>>, <<<<"ҽ">>, <<"Ҽ">>>>,
   <<<<"ҿ">>, <<"Ҿ">>>>, <<<<"ӂ">>, <<"Ӂ">>>>, <<<<"ӄ">>, <<"Ӄ">>>>, <<<<"ӆ">>, <<"Ӆ">>>>,
   <<<<"ӈ">>, <<"Ӈ">>>>, <<<<"ӊ">>, <<"Ӊ">>>>, <<<<"ӌ">>, <<"Ӌ">>>>, <<<<"ӎ">>, <<"Ӎ">>>>,
   <<<<"ӏ">>, <<"Ӏ">>>>, <<<<"ӑ">>, <<"Ӑ">>>>, <<<<"ӓ">>, <<"Ӓ">>>>, <<<<"ӕ">>, <<"Ӕ">>>>,
   <<<<"ӗ">>, <<"Ӗ">>>>, <<<<"ә">>, <<"Ә">>>>, <<<<"ӛ">>, <<"Ӛ">>>>, <<<<"ӝ">>, <<"Ӝ">>>>,
   <<<<"ӟ">>, <<"Ӟ">>>>, <<<<"ӡ">>, <<"Ӡ">>>>, <<<<"ӣ">>, <<"Ӣ">>>>, <<<<"ӥ">>, <<"Ӥ">>>>,
   <<<<"ӧ">>, <<"Ӧ">>>>, <<<<"ө">>, <<"Ө">>>>, <<<<"ӫ">>, <<"Ӫ">>>>, <<<<"ӭ">>, <<"Ӭ">>>>,
   <<<<"ӯ">>, <<"Ӯ">>>>, <<<<"ӱ">>, <<"Ӱ">>>>, <<<<"ӳ">>, <<"Ӳ">>>>, <<<<"ӵ">>, <<"Ӵ">>>>,
   <<<<"ӷ">>, <<"Ӷ">>>>, <<<<"ӹ">>, <<"Ӹ">>>>, <<<<"ӻ">>, <<"Ӻ">>>>, <<<<"ӽ">>, <<"Ӽ">>>>,
   <<<<"ӿ">>, <<"Ӿ">>>>, <<<<"U+0501">>, <<"U+0500">>>>, <<<<"U+0503">>, <<"U+0502">>>>,
   <<<<"U+0505">>, <<"U+0504">>>>, <<<<"U+0507">>, <<"U+0506">>>>, <<<<"U+0509">>, <<"U+0508">>>>,
   <<<<"U+050B">>, <<"U+050A">>>>, <<<<"U+050D">>, <<"U+050C">>>>, <<<<"U+050F">>, <<"U+050E">>>>,
   <<<<"U+0511">>, <<"U+0510">>>>, <<<<"U+0513">>, <<"U+0512">>>>, <<<<"U+0515">>, <<"U+0514">>>>,
   <<<<"U+0517">>, <<"U+0516">>>>, <<<<"U+0519">>, <<"U+0518">>>>, <<<<"U+051B">>, <<"U+051A">>>>,
   <<<<"U+051D">>, <<"U+051C">>>>, <<<<"U+051F">>, <<"U+051E">>>>, <<<<"U+0521">>, <<"U+0520">>>>,
   <<<<"U+0523">>, <<"U+0522">>>>, <<<<"U+0525">>, <<"U+0524">>>>, <<<<"U+0527">>, <<"U+0526">>>>,
   <<<<"U+0529">>, <<"U+0528">>>>, <<<<"U+052B">>, <<"U+052A">>>>, <<<<"U+052D">>, <<"U+052C">>>>,
   <<<<"U+052F">>, <<"U+052E">>>>, <<<<"U+0561">>, <<"U+0531">>>>, <<<<"U+0562">>, <<"U+0532">>>>,
   <<<<"U+0563">>, <<"U+0533">>>>, <<<<"U+0564">>, <<"U+0534">>>>, <<<<"U+0565">>, <<"U+0535">>>>,
   <<<<"U+0566">>, <<"U+0536">>>>, <<<<"U+0567">>, <<"U+0537">>>>, <<<<"U+0568">>, <<"U+0538">>>>,
   <<<<"U+0569">>, <<"U+0539">>>>, <<<<"U+056A">>, <<"U+053A">>>>, <<<<"U+056B">>, <<"U+053B">>>>,
   <<<<"U+056C">>, <<"U+053C">>>>, <<<<"U+056D">>, <<"U+053D">>>>, <<<<"U+056E">>, <<"U+053E">>>>,
   <<<<"U+056F">>, <<"U+053F">>>>, <<<<"U+0570">>, <<"U+0540">>>>, <<<<"U+0571">>, <<"U+0541">>>>,
   <<<<"U+0572">>, <<"U+0542">>>>, <<<<"U+0573">>, <<"U+0543">>>>, <<<<"U+0574">>, <<"U+0544">>>>,
   <<<<"U+0575">>, <<"U+0545">>>>, <<<<"U+0576">>, <<"U+0546">>>>, <<<<"U+0577">>, <<"U+0547">>>>,
   <<<<"U+0578">>, <<"U+0548">>>>, <<<<"U+0579">>, <<"U+0549">>>>, <<<<"U+057A">>, <<"U+054A">>>>,
   <<<<"U+057B">>, <<"U+054B">>>>, <<<<"U+057C">>, <<"U+054C">>>>, <<<<"U+057D">>, <<"U+054D">>>>,
   <<<<"U+057E">>, <<"U+054E">>>>, <<<<"U+057F">>, <<"U+054F">>>>, <<<<"ր">>, <<"U+0550">>>>,
   <<<<"ց">>, <<"U+0551">>>>, <<<<"ւ">>, <<"U+0552">>>>, <<<<"փ">>, <<"U+0553">>>>,
   <<<<"ք">>, <<"U+0554">>>>, <<<<"օ">>, <<"U+0555">>>>, <<<<"ֆ">>, <<"U+0556">>>>,
   <<<<"և">>, <<"U+0535", "U+0552">>>>, <<<<"ა">>, <<"Ა">>>>, <<<<"ბ">>, <<"Ბ">>>>,
   <<<<"გ">>, <<"Გ">>>>, <<<<"დ">>, <<"Დ">>>>, <<<<"ე">>, <<"Ე">>>>, <<<<"ვ">>, <<"Ვ">>>>,
   <<<<"ზ">>, <<"Ზ">>>>, <<<<"თ">>, <<"Თ">>>>, <<<<"ი">>, <<"Ი">>>>, <<<<"კ">>, <<"Კ">>>>,
   <<<<"ლ">>, <<"Ლ">>>>, <<<<"მ">>, <<"Მ">>>>, <<<<"ნ">>, <<"Ნ">>>>, <<<<"ო">>, <<"Ო">>>>,
   <<<<"პ">>, <<"Პ">>>>, <<<<"ჟ">>, <<"Ჟ">>>>, <<<<"რ">>, <<"Რ">>>>, <<<<"ს">>, <<"Ს">>>>,
   <<<<"ტ">>, <<"Ტ">>>>, <<<<"უ">>, <<"Უ">>>>, <<<<"ფ">>, <<"Ფ">>>>, <<<<"ქ">>, <<"Ქ">>>>,
   <<<<"ღ">>, <<"Ღ">>>>, <<<<"ყ">>, <<"Ყ">>>>, <<<<"შ">>, <<"Შ">>>>, <<<<"ჩ">>, <<"Ჩ">>>>,
   <<<<"ც">>, <<"Ც">>>>, <<<<"ძ">>, <<"Ძ">>>>, <<<<"წ">>, <<"Წ">>>>, <<<<"ჭ">>, <<"Ჭ">>>>,
   <<<<"ხ">>, <<"Ხ">>>>, <<<<"ჯ">>, <<"Ჯ">>>>, <<<<"ჰ">>, <<"Ჰ">>>>, <<<<"ჱ">>, <<"Ჱ">>>>,
   <<<<"ჲ">>, <<"Ჲ">>>>, <<<<"ჳ">>, <<"Ჳ">>>>, <<<<"ჴ">>, <<"Ჴ">>>>, <<<<"ჵ">>, <<"Ჵ">>>>,
   <<<<"ჶ">>, <<"Ჶ">>>>, <<<<"ჷ">>, <<"Ჷ">>>>, <<<<"ჸ">>, <<"Ჸ">>>>, <<<<"ჹ">>, <<"Ჹ">>>>,
   <<<<"ჺ">>, <<"Ჺ">>>>, <<<<"ჽ">>, <<"Ჽ">>>>, <<<<"ჾ">>, <<"Ჾ">>>>, <<<<"ჿ">>, <<"Ჿ">>>>,
   <<<<"ᏸ">>, <<"Ᏸ">>>>, <<<<"ᏹ">>, <<"Ᏹ">>>>, <<<<"ᏺ">>, <<"Ᏺ">>>>, <<<<"ᏻ">>, <<"Ᏻ">>>>,
   <<<<"ᏼ">>, <<"Ᏼ">>>>, <<<<"ᏽ">>, <<"Ᏽ">>>>, <<<<"ᲀ">>, <<"U+0412">>>>, <<<<"ᲁ">>, <<"U+0414">>>>,
   <<<<"ᲂ">>, <<"U+041E">>>>, <<<<"ᲃ">>, <<"U+0421">>>>, <<<<"ᲄ">>, <<"U+0422">>>>,
   <<<<"ᲅ">>, <<"U+0422">>>>, <<<<"ᲆ">>, <<"U+042A">>>>, <<<<"ᲇ">>, <<"U+0462">>>>,
   <<<<"ᲈ">>, <<"U+A64A">>>>, <<<<"U+1D79">>, <<"U+A77D">>>>, <<<<"U+1D7D">>, <<"U+2C63">>>>,
   <<<<"ᶎ">>, <<"Ᶎ">>>>, <<<<"U+1E01">>, <<"U+1E00">>>>, <<<<"U+1E03">>, <<"U+1E02">>>>,
   <<<<"U+1E05">>, <<"U+1E04">>>>, <<<<"U+1E07">>, <<"U+1E06">>>>, <<<<"U+1E09">>, <<"U+1E08">>>>,
   <<<<"U+1E0B">>, <<"U+1E0A">>>>, <<<<"U+1E0D">>, <<"U+1E0C">>>>, <<<<"U+1E0F">>, <<"U+1E0E">>>>,
   <<<<"U+1E11">>, <<"U+1E10">>>>, <<<<"U+1E13">>, <<"U+1E12">>>>, <<<<"U+1E15">>, <<"U+1E14">>>>,
   <<<<"U+1E17">>, <<"U+1E16">>>>, <<<<"U+1E19">>, <<"U+1E18">>>>, <<<<"U+1E1B">>, <<"U+1E1A">>>>,
   <<<<"U+1E1D">>, <<"U+1E1C">>>>, <<<<"U+1E1F">>, <<"U+1E1E">>>>, <<<<"U+1E21">>, <<"U+1E20">>>>,
   <<<<"U+1E23">>, <<"U+1E22">>>>, <<<<"U+1E25">>, <<"U+1E24">>>>, <<<<"U+1E27">>, <<"U+1E26">>>>,
   <<<<"U+1E29">>, <<"U+1E28">>>>, <<<<"U+1E2B">>, <<"U+1E2A">>>>, <<<<"U+1E2D">>, <<"U+1E2C">>>>,
   <<<<"U+1E2F">>, <<"U+1E2E">>>>, <<<<"U+1E31">>, <<"U+1E30">>>>, <<<<"U+1E33">>, <<"U+1E32">>>>,
   <<<<"U+1E35">>, <<"U+1E34">>>>, <<<<"U+1E37">>, <<"U+1E36">>>>, <<<<"U+1E39">>, <<"U+1E38">>>>,
   <<<<"U+1E3B">>, <<"U+1E3A">>>>, <<<<"U+1E3D">>, <<"U+1E3C">>>>, <<<<"U+1E3F">>, <<"U+1E3E">>>>,
   <<<<"U+1E41">>, <<"U+1E40">>>>, <<<<"U+1E43">>, <<"U+1E42">>>>, <<<<"U+1E45">>, <<"U+1E44">>>>,
   <<<<"U+1E47">>, <<"U+1E46">>>>, <<<<"U+1E49">>, <<"U+1E48">>>>, <<<<"U+1E4B">>, <<"U+1E4A">>>>,
   <<<<"U+1E4D">>, <<"U+1E4C">>>>, <<<<"U+1E4F">>, <<"U+1E4E">>>>, <<<<"U+1E51">>, <<"U+1E50">>>>,
   <<<<"U+1E53">>, <<"U+1E52">>>>, <<<<"U+1E55">>, <<"U+1E54">>>>, <<<<"U+1E57">>, <<"U+1E56">>>>,
   <<<<"U+1E59">>, <<"U+1E58">>>>, <<<<"U+1E5B">>, <<"U+1E5A">>>>, <<<<"U+1E5D">>, <<"U+1E5C">>>>,
   <<<<"U+1E5F">>, <<"U+1E5E">>>>, <<<<"U+1E61">>, <<"U+1E60">>>>, <<<<"U+1E63">>, <<"U+1E62">>>>,
   <<<<"U+1E65">>, <<"U+1E64">>>>, <<<<"U+1E67">>, <<"U+1E66">>>>, <<<<"U+1E69">>, <<"U+1E68">>>>,
   <<<<"U+1E6B">>, <<"U+1E6A">>>>, <<<<"U+1E6D">>, <<"U+1E6C">>>>, <<<<"U+1E6F">>, <<"U+1E6E">>>>,
   <<<<"U+1E71">>, <<"U+1E70">>>>, <<<<"U+1E73">>, <<"U+1E72">>>>, <<<<"U+1E75">>, <<"U+1E74">>>>,
   <<<<"U+1E77">>, <<"U+1E76">>>>, <<<<"U+1E79">>, <<"U+1E78">>>>, <<<<"U+1E7B">>, <<"U+1E7A">>>>,
   <<<<"U+1E7D">>, <<"U+1E7C">>>>, <<<<"U+1E7F">>, <<"U+1E7E">>>>, <<<<"ẁ">>, <<"Ẁ">>>>,
   <<<<"ẃ">>, <<"Ẃ">>>>, <<<<"ẅ">>, <<"Ẅ">>>>, <<<<"ẇ">>, <<"Ẇ">>>>, <<<<"ẉ">>, <<"Ẉ">>>>,
   <<<<"ẋ">>, <<"Ẋ">>>>, <<<<"ẍ">>, <<"Ẍ">>>>, <<<<"ẏ">>, <<"Ẏ">>>>, <<<<"ẑ">>, <<"Ẑ">>>>,
   <<<<"ẓ">>, <<"Ẓ">>>>, <<<<"ẕ">>, <<"Ẕ">>>>, <<<<"ẖ">>, <<"H", "U+0331">>>>,
   <<<<"ẗ">>, <<"T", "U+0308">>>>, <<<<"ẘ">>, <<"W", "U+030A">>>>, <<<<"ẙ">>, <<"Y", "U+030A">>>>,
   <<<<"ẚ">>, <<"A", "ʾ">>>>, <<<<"ẛ">>, <<"U+1E60">>>>, <<<<"ạ">>, <<"Ạ">>>>, <<<<"ả">>, <<"Ả">>>>,
   <<<<"ấ">>, <<"Ấ">>>>, <<<<"ầ">>, <<"Ầ">>>>, <<<<"ẩ">>, <<"Ẩ">>>>, <<<<"ẫ">>, <<"Ẫ">>>>,
   <<<<"ậ">>, <<"Ậ">>>>, <<<<"ắ">>, <<"Ắ">>>>, <<<<"ằ">>, <<"Ằ">>>>, <<<<"ẳ">>, <<"Ẳ">>>>,
   <<<<"ẵ">>, <<"Ẵ">>>>, <<<<"ặ">>, <<"Ặ">>>>, <<<<"ẹ">>, <<"Ẹ">>>>, <<<<"ẻ">>, <<"Ẻ">>>>,
   <<<<"ẽ">>, <<"Ẽ">>>>, <<<<"ế">>, <<"Ế">>>>, <<<<"ề">>, <<"Ề">>>>, <<<<"ể">>, <<"Ể">>>>,
   <<<<"ễ">>, <<"Ễ">>>>, <<<<"ệ">>, <<"Ệ">>>>, <<<<"ỉ">>, <<"Ỉ">>>>, <<<<"ị">>, <<"Ị">>>>,
   <<<<"ọ">>, <<"Ọ">>>>, <<<<"ỏ">>, <<"Ỏ">>>>, <<<<"ố">>, <<"Ố">>>>, <<<<"ồ">>, <<"Ồ">>>>,
   <<<<"ổ">>, <<"Ổ">>>>, <<<<"ỗ">>, <<"Ỗ">>>>, <<<<"ộ">>, <<"Ộ">>>>, <<<<"ớ">>, <<"Ớ">>>>,
   <<<<"ờ">>, <<"Ờ">>>>, <<<<"ở">>, <<"Ở">>>>, <<<<"ỡ">>, <<"Ỡ">>>>, <<<<"ợ">>, <<"Ợ">>>>,
   <<<<"ụ">>, <<"Ụ">>>>, <<<<"ủ">>, <<"Ủ">>>>, <<<<"ứ">>, <<"Ứ">>>>, <<<<"ừ">>, <<"Ừ">>>>,
   <<<<"ử">>, <<"Ử">>>>, <<<<"ữ">>, <<"Ữ">>>>, <<<<"ự">>, <<"Ự">>>>, <<<<"ỳ">>, <<"Ỳ">>>>,
   <<<<"ỵ">>, <<"Ỵ">>>>, <<<<"ỷ">>, <<"Ỷ">>>>, <<<<"ỹ">>, <<"Ỹ">>>>, <<<<"ỻ">>, <<"Ỻ">>>>,
   <<<<"ỽ">>, <<"Ỽ">>>>, <<<<"ỿ">>, <<"Ỿ">>>>, <<<<"U+1F00">>, <<"U+1F08">>>>,
   <<<<"U+1F01">>, <<"U+1F09">>>>, <<<<"U+1F02">>, <<"U+1F0A">>>>, <<<<"U+1F03">>, <<"U+1F0B">>>>,
   <<<<"U+1F04">>, <<"U+1F0C">>>>, <<<<"U+1F05">>, <<"U+1F0D">>>>, <<<<"U+1F06">>, <<"U+1F0E">>>>,
   <<<<"U+1F07">>, <<"U+1F0F">>>>, <<<<"U+1F10">>, <<"U+1F18">>>>, <<<<"U+1F11">>, <<"U+1F19">>>>,
   <<<<"U+1F12">>, <<"U+1F1A">>>>, <<<<"U+1F13">>, <<"U+1F1B">>>>, <<<<"U+1F14">>, <<"U+1F1C">>>>,
   <<<<"U+1F15">>, <<"U+1F1D">>>>, <<<<"U+1F20">>, <<"U+1F28">>>>, <<<<"U+1F21">>, <<"U+1F29">>>>,
   <<<<"U+1F22">>, <<"U+1F2A">>>>, <<<<"U+1F23">>, <<"U+1F2B">>>>, <<<<"U+1F24">>, <<"U+1F2C">>>>,
   <<<<"U+1F25">>, <<"U+1F2D">>>>, <<<<"U+1F26">>, <<"U+1F2E">>>>, <<<<"U+1F27">>, <<"U+1F2F">>>>,
   <<<<"U+1F30">>, <<"U+1F38">>>>, <<<<"U+1F31">>, <<"U+1F39">>>>, <<<<"U+1F32">>, <<"U+1F3A">>>>,
   <<<<"U+1F33">>, <<"U+1F3B">>>>, <<<<"U+1F34">>, <<"U+1F3C">>>>, <<<<"U+1F35">>, <<"U+1F3D">>>>,
   <<<<"U+1F36">>, <<"U+1F3E">>>>, <<<<"U+1F37">>, <<"U+1F3F">>>>, <<<<"U+1F40">>, <<"U+1F48">>>>,
   <<<<"U+1F41">>, <<"U+1F49">>>>, <<<<"U+1F42">>, <<"U+1F4A">>>>, <<<<"U+1F43">>, <<"U+1F4B">>>>,
   <<<<"U+1F44">>, <<"U+1F4C">>>>, <<<<"U+1F45">>, <<"U+1F4D">>>>, <<<<"U+1F50">>, <<"Υ", "U+0313">>>>,
   <<<<"U+1F51">>, <<"U+1F59">>>>, <<<<"U+1F52">>, <<"Υ", "U+0313", "U+0300">>>>,
   <<<<"U+1F53">>, <<"U+1F5B">>>>, <<<<"U+1F54">>, <<"Υ", "U+0313", "U+0301">>>>,
   <<<<"U+1F55">>, <<"U+1F5D">>>>, <<<<"U+1F56">>, <<"Υ", "U+0313", "U+0342">>>>,
   <<<<"U+1F57">>, <<"U+1F5F">>>>, <<<<"U+1F60">>, <<"U+1F68">>>>, <<<<"U+1F61">>, <<"U+1F69">>>>,
   <<<<"U+1F62">>, <<"U+1F6A">>>>, <<<<"U+1F63">>, <<"U+1F6B">>>>, <<<<"U+1F64">>, <<"U+1F6C">>>>,
   <<<<"U+1F65">>, <<"U+1F6D">>>>, <<<<"U+1F66">>, <<"U+1F6E">>>>, <<<<"U+1F67">>, <<"U+1F6F">>>>,
   <<<<"U+1F70">>, <<"Ὰ">>>>, <<<<"U+1F71">>, <<"Ά">>>>, <<<<"U+1F72">>, <<"Ὲ">>>>,
   <<<<"U+1F73">>, <<"Έ">>>>, <<<<"U+1F74">>, <<"Ὴ">>>>, <<<<"U+1F75">>, <<"Ή">>>>,
   <<<<"U+1F76">>, <<"Ὶ">>>>, <<<<"U+1F77">>, <<"Ί">>>>, <<<<"U+1F78">>, <<"Ὸ">>>>,
   <<<<"U+1F79">>, <<"Ό">>>>, <<<<"U+1F7A">>, <<"Ὺ">>>>, <<<<"U+1F7B">>, <<"Ύ">>>>,
   <<<<"U+1F7C">>, <<"Ὼ">>>>, <<<<"U+1F7D">>, <<"Ώ">>>>, <<<<"ᾀ">>, <<"U+1F08", "Ι">>>>,
   <<<<"ᾁ">>, <<"U+1F09", "Ι">>>>, <<<<"ᾂ">>, <<"U+1F0A", "Ι">>>>, <<<<"ᾃ">>, <<"U+1F0B", "Ι">>>>,
   <<<<"ᾄ">>, <<"U+1F0C", "Ι">>>>, <<<<"ᾅ">>, <<"U+1F0D", "Ι">>>>, <<<<"ᾆ">>, <<"U+1F0E", "Ι">>>>,
   <<<<"ᾇ">>, <<"U+1F0F", "Ι">>>>, <<<<"ᾈ">>, <<"U+1F08", "Ι">>>>, <<<<"ᾉ">>, <<"U+1F09", "Ι">>>>,
   <<<<"ᾊ">>, <<"U+1F0A", "Ι">>>>, <<<<"ᾋ">>, <<"U+1F0B", "Ι">>>>, <<<<"ᾌ">>, <<"U+1F0C", "Ι">>>>,
   <<<<"ᾍ">>, <<"U+1F0D", "Ι">>>>, <<<<"ᾎ">>, <<"U+1F0E", "Ι">>>>, <<<<"ᾏ">>, <<"U+1F0F", "Ι">>>>,
   <<<<"ᾐ">>, <<"U+1F28", "Ι">>>>, <<<<"ᾑ">>, <<"U+1F29", "Ι">>>>, <<<<"ᾒ">>, <<"U+1F2A", "Ι">>>>,
   <<<<"ᾓ">>, <<"U+1F2B", "Ι">>>>, <<<<"ᾔ">>, <<"U+1F2C", "Ι">>>>, <<<<"ᾕ">>, <<"U+1F2D", "Ι">>>>,
   <<<<"ᾖ">>, <<"U+1F2E", "Ι">>>>, <<<<"ᾗ">>, <<"U+1F2F", "Ι">>>>, <<<<"ᾘ">>, <<"U+1F28", "Ι">>>>,
   <<<<"ᾙ">>, <<"U+1F29", "Ι">>>>, <<<<"ᾚ">>, <<"U+1F2A", "Ι">>>>, <<<<"ᾛ">>, <<"U+1F2B", "Ι">>>>,
   <<<<"ᾜ">>, <<"U+1F2C", "Ι">>>>, <<<<"ᾝ">>, <<"U+1F2D", "Ι">>>>, <<<<"ᾞ">>, <<"U+1F2E", "Ι">>>>,
   <<<<"ᾟ">>, <<"U+1F2F", "Ι">>>>, <<<<"ᾠ">>, <<"U+1F68", "Ι">>>>, <<<<"ᾡ">>, <<"U+1F69", "Ι">>>>,
   <<<<"ᾢ">>, <<"U+1F6A", "Ι">>>>, <<<<"ᾣ">>, <<"U+1F6B", "Ι">>>>, <<<<"ᾤ">>, <<"U+1F6C", "Ι">>>>,
   <<<<"ᾥ">>, <<"U+1F6D", "Ι">>>>, <<<<"ᾦ">>, <<"U+1F6E", "Ι">>>>, <<<<"ᾧ">>, <<"U+1F6F", "Ι">>>>,
   <<<<"ᾨ">>, <<"U+1F68", "Ι">>>>, <<<<"ᾩ">>, <<"U+1F69", "Ι">>>>, <<<<"ᾪ">>, <<"U+1F6A", "Ι">>>>,
   <<<<"ᾫ">>, <<"U+1F6B", "Ι">>>>, <<<<"ᾬ">>, <<"U+1F6C", "Ι">>>>, <<<<"ᾭ">>, <<"U+1F6D", "Ι">>>>,
   <<<<"ᾮ">>, <<"U+1F6E", "Ι">>>>, <<<<"ᾯ">>, <<"U+1F6F", "Ι">>>>, <<<<"ᾰ">>, <<"Ᾰ">>>>,
   <<<<"ᾱ">>, <<"Ᾱ">>>>, <<<<"ᾲ">>, <<"Ὰ", "Ι">>>>, <<<<"ᾳ">>, <<"Α", "Ι">>>>,
   <<<<"ᾴ">>, <<"Ά", "Ι">>>>, <<<<"ᾶ">>, <<"Α", "U+0342">>>>, <<<<"ᾷ">>, <<"Α", "U+0342", "Ι">>>>,
   <<<<"ᾼ">>, <<"Α", "Ι">>>>, <<<<"ι">>, <<"Ι">>>>, <<<<"ῂ">>, <<"Ὴ", "Ι">>>>,
   <<<<"ῃ">>, <<"Η", "Ι">>>>, <<<<"ῄ">>, <<"Ή", "Ι">>>>, <<<<"ῆ">>, <<"Η", "U+0342">>>>,
   <<<<"ῇ">>, <<"Η", "U+0342", "Ι">>>>, <<<<"ῌ">>, <<"Η", "Ι">>>>, <<<<"ῐ">>, <<"Ῐ">>>>,
   <<<<"ῑ">>, <<"Ῑ">>>>, <<<<"ῒ">>, <<"Ι", "U+0308", "U+0300">>>>,
   <<<<"ΐ">>, <<"Ι", "U+0308", "U+0301">>>>, <<<<"ῖ">>, <<"Ι", "U+0342">>>>,
   <<<<"ῗ">>, <<"Ι", "U+0308", "U+0342">>>>, <<<<"ῠ">>, <<"Ῠ">>>>, <<<<"ῡ">>, <<"Ῡ">>>>,
   <<<<"ῢ">>, <<"Υ", "U+0308", "U+0300">>>>, <<<<"ΰ">>, <<"Υ", "U+0308", "U+0301">>>>,
   <<<<"ῤ">>, <<"Ρ", "U+0313">>>>, <<<<"ῥ">>, <<"Ῥ">>>>, <<<<"ῦ">>, <<"Υ", "U+0342">>>>,
   <<<<"ῧ">>, <<"Υ", "U+0308", "U+0342">>>>, <<<<"ῲ">>, <<"Ὼ", "Ι">>>>, <<<<"ῳ">>, <<"Ω", "Ι">>>>,
   <<<<"ῴ">>, <<"Ώ", "Ι">>>>, <<<<"ῶ">>, <<"Ω", "U+0342">>>>, <<<<"ῷ">>, <<"Ω", "U+0342", "Ι">>>>,
   <<<<"ῼ">>, <<"Ω", "Ι">>>>, <<<<"U+214E">>, <<"U+2132">>>>, <<<<"U+2170">>, <<"U+2160">>>>,
   <<<<"U+2171">>, <<"U+2161">>>>, <<<<"U+2172">>, <<"U+2162">>>>, <<<<"U+2173">>, <<"U+2163">>>>,
   <<<<"U+2174">>, <<"U+2164">>>>, <<<<"U+2175">>, <<"U+2165">>>>, <<<<"U+2176">>, <<"U+2166">>>>,
   <<<<"U+2177">>, <<"U+2167">>>>, <<<<"U+2178">>, <<"U+2168">>>>, <<<<"U+2179">>, <<"U+2169">>>>,
   <<<<"U+217A">>, <<"U+216A">>>>, <<<<"U+217B">>, <<"U+216B">>>>, <<<<"U+217C">>, <<"U+216C">>>>,
   <<<<"U+217D">>, <<"U+216D">>>>, <<<<"U+217E">>, <<"U+216E">>>>, <<<<"U+217F">>, <<"U+216F">>>>,
   <<<<"ↄ">>, <<"Ↄ">>>>, <<<<"ⓐ">>, <<"Ⓐ">>>>, <<<<"ⓑ">>, <<"Ⓑ">>>>, <<<<"ⓒ">>, <<"Ⓒ">>>>,
   <<<<"ⓓ">>, <<"Ⓓ">>>>, <<<<"ⓔ">>, <<"Ⓔ">>>>, <<<<"ⓕ">>, <<"Ⓕ">>>>, <<<<"ⓖ">>, <<"Ⓖ">>>>,
   <<<<"ⓗ">>, <<"Ⓗ">>>>, <<<<"ⓘ">>, <<"Ⓘ">>>>, <<<<"ⓙ">>, <<"Ⓙ">>>>, <<<<"ⓚ">>, <<"Ⓚ">>>>,
   <<<<"ⓛ">>, <<"Ⓛ">>>>, <<<<"ⓜ">>, <<"Ⓜ">>>>, <<<<"ⓝ">>, <<"Ⓝ">>>>, <<<<"ⓞ">>, <<"Ⓞ">>>>,
   <<<<"ⓟ">>, <<"Ⓟ">>>>, <<<<"ⓠ">>, <<"Ⓠ">>>>, <<<<"ⓡ">>, <<"Ⓡ">>>>, <<<<"ⓢ">>, <<"Ⓢ">>>>,
   <<<<"ⓣ">>, <<"Ⓣ">>>>, <<<<"ⓤ">>, <<"Ⓤ">>>>, <<<<"ⓥ">>, <<"Ⓥ">>>>, <<<<"ⓦ">>, <<"Ⓦ">>>>,
   <<<<"ⓧ">>, <<"Ⓧ">>>>, <<<<"ⓨ">>, <<"Ⓨ">>>>, <<<<"ⓩ">>, <<"Ⓩ">>>>, <<<<"U+2C30">>, <<"U+2C00">>>>,
   <<<<"U+2C31">>, <<"U+2C01">>>>, <<<<"U+2C32">>, <<"U+2C02">>>>, <<<<"U+2C33">>, <<"U+2C03">>>>,
   <<<<"U+2C34">>, <<"U+2C04">>>>, <<<<"U+2C35">>, <<"U+2C05">>>>, <<<<"U+2C36">>, <<"U+2C06">>>>,
   <<<<"U+2C37">>, <<"U+2C07">>>>, <<<<"U+2C38">>, <<"U+2C08">>>>, <<<<"U+2C39">>, <<"U+2C09">>>>,
   <<<<"U+2C3A">>, <<"U+2C0A">>>>, <<<<"U+2C3B">>, <<"U+2C0B">>>>, <<<<"U+2C3C">>, <<"U+2C0C">>>>,
   <<<<"U+2C3D">>, <<"U+2C0D">>>>, <<<<"U+2C3E">>, <<"U+2C0E">>>>, <<<<"U+2C3F">>, <<"U+2C0F">>>>,
   <<<<"U+2C40">>, <<"U+2C10">>>>, <<<<"U+2C41">>, <<"U+2C11">>>>, <<<<"U+2C42">>, <<"U+2C12">>>>,
   <<<<"U+2C43">>, <<"U+2C13">>>>, <<<<"U+2C44">>, <<"U+2C14">>>>, <<<<"U+2C45">>, <<"U+2C15">>>>,
   <<<<"U+2C46">>, <<"U+2C16">>>>, <<<<"U+2C47">>, <<"U+2C17">>>>, <<<<"U+2C48">>, <<"U+2C18">>>>,
   <<<<"U+2C49">>, <<"U+2C19">>>>, <<<<"U+2C4A">>, <<"U+2C1A">>>>, <<<<"U+2C4B">>, <<"U+2C1B">>>>,
   <<<<"U+2C4C">>, <<"U+2C1C">>>>, <<<<"U+2C4D">>, <<"U+2C1D">>>>, <<<<"U+2C4E">>, <<"U+2C1E">>>>,
   <<<<"U+2C4F">>, <<"U+2C1F">>>>, <<<<"U+2C50">>, <<"U+2C20">>>>, <<<<"U+2C51">>, <<"U+2C21">>>>,
   <<<<"U+2C52">>, <<"U+2C22">>>>, <<<<"U+2C53">>, <<"U+2C23">>>>, <<<<"U+2C54">>, <<"U+2C24">>>>,
   <<<<"U+2C55">>, <<"U+2C25">>>>, <<<<"U+2C56">>, <<"U+2C26">>>>, <<<<"U+2C57">>, <<"U+2C27">>>>,
   <<<<"U+2C58">>, <<"U+2C28">>>>, <<<<"U+2C59">>, <<"U+2C29">>>>, <<<<"U+2C5A">>, <<"U+2C2A">>>>,
   <<<<"U+2C5B">>, <<"U+2C2B">>>>, <<<<"U+2C5C">>, <<"U+2C2C">>>>, <<<<"U+2C5D">>, <<"U+2C2D">>>>,
   <<<<"U+2C5E">>, <<"U+2C2E">>>>, <<<<"U+2C5F">>, <<"U+2C2F">>>>, <<<<"U+2C61">>, <<"U+2C60">>>>,
   <<<<"U+2C65">>, <<"U+023A">>>>, <<<<"U+2C66">>, <<"U+023E">>>>, <<<<"U+2C68">>, <<"U+2C67">>>>,
   <<<<"U+2C6A">>, <<"U+2C69">>>>, <<<<"U+2C6C">>, <<"U+2C6B">>>>, <<<<"U+2C73">>, <<"U+2C72">>>>,
   <<<<"U+2C76">>, <<"U+2C75">>>>, <<<<"ⲁ">>, <<"Ⲁ">>>>, <<<<"ⲃ">>, <<"Ⲃ">>>>, <<<<"ⲅ">>, <<"Ⲅ">>>>,
   <<<<"ⲇ">>, <<"Ⲇ">>>>, <<<<"ⲉ">>, <<"Ⲉ">>>>, <<<<"ⲋ">>, <<"Ⲋ">>>>, <<<<"ⲍ">>, <<"Ⲍ">>>>,
   <<<<"ⲏ">>, <<"Ⲏ">>>>, <<<<"ⲑ">>, <<"Ⲑ">>>>, <<<<"ⲓ">>, <<"Ⲓ">>>>, <<<<"ⲕ">>, <<"Ⲕ">>>>,
   <<<<"ⲗ">>, <<"Ⲗ">>>>, <<<<"ⲙ">>, <<"Ⲙ">>>>, <<<<"ⲛ">>, <<"Ⲛ">>>>, <<<<"ⲝ">>, <<"Ⲝ">>>>,
   <<<<"ⲟ">>, <<"Ⲟ">>>>, <<<<"ⲡ">>, <<"Ⲡ">>>>, <<<<"ⲣ">>, <<"Ⲣ">>>>, <<<<"ⲥ">>, <<"Ⲥ">>>>,
   <<<<"ⲧ">>, <<"Ⲧ">>>>, <<<<"ⲩ">>, <<"Ⲩ">>>>, <<<<"ⲫ">>, <<"Ⲫ">>>>, <<<<"ⲭ">>, <<"Ⲭ">>>>,
   <<<<"ⲯ">>, <<"Ⲯ">>>>, <<<<"ⲱ">>, <<"Ⲱ">>>>, <<<<"ⲳ">>, <<"Ⲳ">>>>, <<<<"ⲵ">>, <<"Ⲵ">>>>,
   <<<<"ⲷ">>, <<"Ⲷ">>>>, <<<<"ⲹ">>, <<"Ⲹ">>>>, <<<<"ⲻ">>, <<"Ⲻ">>>>, <<<<"ⲽ">>, <<"Ⲽ">>>>,
   <<<<"ⲿ">>, <<"Ⲿ">>>>, <<<<"ⳁ">>, <<"Ⳁ">>>>, <<<<"ⳃ">>, <<"Ⳃ">>>>, <<<<"ⳅ">>, <<"Ⳅ">>>>,
   <<<<"ⳇ">>, <<"Ⳇ">>>>, <<<<"ⳉ">>, <<"Ⳉ">>>>, <<<<"ⳋ">>, <<"Ⳋ">>>>, <<<<"ⳍ">>, <<"Ⳍ">>>>,
   <<<<"ⳏ">>, <<"Ⳏ">>>>, <<<<"ⳑ">>, <<"Ⳑ">>>>, <<<<"ⳓ">>, <<"Ⳓ">>>>, <<<<"ⳕ">>, <<"Ⳕ">>>>,
   <<<<"ⳗ">>, <<"Ⳗ">>>>, <<<<"ⳙ">>, <<"Ⳙ">>>>, <<<<"ⳛ">>, <<"Ⳛ">>>>, <<<<"ⳝ">>, <<"Ⳝ">>>>,
   <<<<"ⳟ">>, <<"Ⳟ">>>>, <<<<"ⳡ">>, <<"Ⳡ">>>>, <<<<"ⳣ">>, <<"Ⳣ">>>>, <<<<"ⳬ">>, <<"Ⳬ">>>>,
   <<<<"ⳮ">>, <<"Ⳮ">>>>, <<<<"ⳳ">>, <<"Ⳳ">>>>, <<<<"U+2D00">>, <<"Ⴀ">>>>, <<<<"U+2D01">>, <<"Ⴁ">>>>,
   <<<<"U+2D02">>, <<"Ⴂ">>>>, <<<<"U+2D03">>, <<"Ⴃ">>>>, <<<<"U+2D04">>, <<"Ⴄ">>>>,
   <<<<"U+2D05">>, <<"Ⴅ">>>>, <<<<"U+2D06">>, <<"Ⴆ">>>>, <<<<"U+2D07">>, <<"Ⴇ">>>>,
   <<<<"U+2D08">>, <<"Ⴈ">>>>, <<<<"U+2D09">>, <<"Ⴉ">>>>, <<<<"U+2D0A">>, <<"Ⴊ">>>>,
   <<<<"U+2D0B">>, <<"Ⴋ">>>>, <<<<"U+2D0C">>, <<"Ⴌ">>>>, <<<<"U+2D0D">>, <<"Ⴍ">>>>,
   <<<<"U+2D0E">>, <<"Ⴎ">>>>, <<<<"U+2D0F">>, <<"Ⴏ">>>>, <<<<"U+2D10">>, <<"Ⴐ">>>>,
   <<<<"U+2D11">>, <<"Ⴑ">>>>, <<<<"U+2D12">>, <<"Ⴒ">>>>, <<<<"U+2D13">>, <<"Ⴓ">>>>,
   <<<<"U+2D14">>, <<"Ⴔ">>>>, <<<<"U+2D15">>, <<"Ⴕ">>>>, <<<<"U+2D16">>, <<"Ⴖ">>>>,
   <<<<"U+2D17">>, <<"Ⴗ">>>>, <<<<"U+2D18">>, <<"Ⴘ">>>>, <<<<"U+2D19">>, <<"Ⴙ">>>>,
   <<<<"U+2D1A">>, <<"Ⴚ">>>>, <<<<"U+2D1B">>, <<"Ⴛ">>>>, <<<<"U+2D1C">>, <<"Ⴜ">>>>,
   <<<<"U+2D1D">>, <<"Ⴝ">>>>, <<<<"U+2D1E">>, <<"Ⴞ">>>>, <<<<"U+2D1F">>, <<"Ⴟ">>>>,
   <<<<"U+2D20">>, <<"Ⴠ">>>>, <<<<"U+2D21">>, <<"Ⴡ">>>>, <<<<"U+2D22">>, <<"Ⴢ">>>>,
   <<<<"U+2D23">>, <<"Ⴣ">>>>, <<<<"U+2D24">>, <<"Ⴤ">>>>, <<<<"U+2D25">>, <<"Ⴥ">>>>,
   <<<<"U+2D27">>, <<"Ⴧ">>>>, <<<<"U+2D2D">>, <<"Ⴭ">>>>, <<<<"U+A641">>, <<"U+A640">>>>,
   <<<<"U+A643">>, <<"U+A642">>>>, <<<<"U+A645">>, <<"U+A644">>>>, <<<<"U+A647">>, <<"U+A646">>>>,
   <<<<"U+A649">>, <<"U+A648">>>>, <<<<"U+A64B">>, <<"U+A64A">>>>, <<<<"U+A64D">>, <<"U+A64C">>>>,
   <<<<"U+A64F">>, <<"U+A64E">>>>, <<<<"U+A651">>, <<"U+A650">>>>, <<<<"U+A653">>, <<"U+A652">>>>,
   <<<<"U+A655">>, <<"U+A654">>>>, <<<<"U+A657">>, <<"U+A656">>>>, <<<<"U+A659">>, <<"U+A658">>>>,
   <<<<"U+A65B">>, <<"U+A65A">>>>, <<<<"U+A65D">>, <<"U+A65C">>>>, <<<<"U+A65F">>, <<"U+A65E">>>>,
   <<<<"U+A661">>, <<"U+A660">>>>, <<<<"U+A663">>, <<"U+A662">>>>, <<<<"U+A665">>, <<"U+A664">>>>,
   <<<<"U+A667">>, <<"U+A666">>>>, <<<<"U+A669">>, <<"U+A668">>>>, <<<<"U+A66B">>, <<"U+A66A">>>>,
   <<<<"U+A66D">>, <<"U+A66C">>>>, <<<<"ꚁ">>, <<"Ꚁ">>>>, <<<<"ꚃ">>, <<"Ꚃ">>>>, <<<<"ꚅ">>, <<"Ꚅ">>>>,
   <<<<"ꚇ">>, <<"Ꚇ">>>>, <<<<"ꚉ">>, <<"Ꚉ">>>>, <<<<"ꚋ">>, <<"Ꚋ">>>>, <<<<"ꚍ">>, <<"Ꚍ">>>>,
   <<<<"ꚏ">>, <<"Ꚏ">>>>, <<<<"ꚑ">>, <<"Ꚑ">>>>, <<<<"ꚓ">>, <<"Ꚓ">>>>, <<<<"ꚕ">>, <<"Ꚕ">>>>,
   <<<<"ꚗ">>, <<"Ꚗ">>>>, <<<<"ꚙ">>, <<"Ꚙ">>>>, <<<<"ꚛ">>, <<"Ꚛ">>>>, <<<<"U+A723">>, <<"U+A722">>>>,
   <<<<"U+A725">>, <<"U+A724">>>>, <<<<"U+A727">>, <<"U+A726">>>>, <<<<"U+A729">>, <<"U+A728">>>>,
   <<<<"U+A72B">>, <<"U+A72A">>>>, <<<<"U+A72D">>, <<"U+A72C">>>>, <<<<"U+A72F">>, <<"U+A72E">>>>,
   <<<<"U+A733">>, <<"U+A732">>>>, <<<<"U+A735">>, <<"U+A734">>>>, <<<<"U+A737">>, <<"U+A736">>>>,
   <<<<"U+A739">>, <<"U+A738">>>>, <<<<"U+A73B">>, <<"U+A73A">>>>, <<<<"U+A73D">>, <<"U+A73C">>>>,
   <<<<"U+A73F">>, <<"U+A73E">>>>, <<<<"U+A741">>, <<"U+A740">>>>, <<<<"U+A743">>, <<"U+A742">>>>,
   <<<<"U+A745">>, <<"U+A744">>>>, <<<<"U+A747">>, <<"U+A746">>>>, <<<<"U+A749">>, <<"U+A748">>>>,
   <<<<"U+A74B">>, <<"U+A74A">>>>, <<<<"U+A74D">>, <<"U+A74C">>>>, <<<<"U+A74F">>, <<"U+A74E">>>>,
   <<<<"U+A751">>, <<"U+A750">>>>, <<<<"U+A753">>, <<"U+A752">>>>, <<<<"U+A755">>, <<"U+A754">>>>,
   <<<<"U+A757">>, <<"U+A756">>>>, <<<<"U+A759">>, <<"U+A758">>>>, <<<<"U+A75B">>, <<"U+A75A">>>>,
   <<<<"U+A75D">>, <<"U+A75C">>>>, <<<<"U+A75F">>, <<"U+A75E">>>>, <<<<"U+A761">>, <<"U+A760">>>>,
   <<<<"U+A763">>, <<"U+A762">>>>, <<<<"U+A765">>, <<"U+A764">>>>, <<<<"U+A767">>, <<"U+A766">>>>,
   <<<<"U+A769">>, <<"U+A768">>>>, <<<<"U+A76B">>, <<"U+A76A">>>>, <<<<"U+A76D">>, <<"U+A76C">>>>,
   <<<<"U+A76F">>, <<"U+A76E">>>>, <<<<"U+A77A">>, <<"U+A779">>>>, <<<<"U+A77C">>, <<"U+A77B">>>>,
   <<<<"U+A77F">>, <<"U+A77E">>>>, <<<<"ꞁ">>, <<"Ꞁ">>>>, <<<<"ꞃ">>, <<"Ꞃ">>>>, <<<<"ꞅ">>, <<"Ꞅ">>>>,
   <<<<"ꞇ">>, <<"Ꞇ">>>>, <<<<"ꞌ">>, <<"Ꞌ">>>>, <<<<"ꞑ">>, <<"Ꞑ">>>>, <<<<"ꞓ">>, <<"Ꞓ">>>>,
   <<<<"ꞔ">>, <<"Ꞔ">>>>, <<<<"ꞗ">>, <<"Ꞗ">>>>, <<<<"ꞙ">>, <<"Ꞙ">>>>, <<<<"ꞛ">>, <<"Ꞛ">>>>,
   <<<<"ꞝ">>, <<"Ꞝ">>>>, <<<<"ꞟ">>, <<"Ꞟ">>>>, <<<<"ꞡ">>, <<"Ꞡ">>>>, <<<<"ꞣ">>, <<"Ꞣ">>>>,
   <<<<"ꞥ">>, <<"Ꞥ">>>>, <<<<"ꞧ">>, <<"Ꞧ">>>>, <<<<"ꞩ">>, <<"Ꞩ">>>>, <<<<"ꞵ">>, <<"Ꞵ">>>>,
   <<<<"ꞷ">>, <<"Ꞷ">>>>, <<<<"ꞹ">>, <<"Ꞹ">>>>, <<<<"ꞻ">>, <<"Ꞻ">>>>, <<<<"ꞽ">>, <<"Ꞽ">>>>,
   <<<<"ꞿ">>, <<"Ꞿ">>>>, <<<<"ꟁ">>, <<"Ꟁ">>>>, <<<<"ꟃ">>, <<"Ꟃ">>>>, <<<<"ꟈ">>, <<"Ꟈ">>>>,
   <<<<"ꟊ">>, <<"Ꟊ">>>>, <<<<"ꟑ">>, <<"Ꟑ">>>>, <<<<"ꟗ">>, <<"Ꟗ">>>>, <<<<"ꟙ">>, <<"Ꟙ">>>>,
   <<<<"ꟶ">>, <<"Ꟶ">>>>, <<<<"U+AB53">>, <<"Ꭓ">>>>, <<<<"U+AB70">>, <<"Ꭰ">>>>,
   <<<<"U+AB71">>, <<"Ꭱ">>>>, <<<<"U+AB72">>, <<"Ꭲ">>>>, <<<<"U+AB73">>, <<"Ꭳ">>>>,
   <<<<"U+AB74">>, <<"Ꭴ">>>>, <<<<"U+AB75">>, <<"Ꭵ">>>>, <<<<"U+AB76">>, <<"Ꭶ">>>>,
   <<<<"U+AB77">>, <<"Ꭷ">>>>, <<<<"U+AB78">>, <<"Ꭸ">>>>, <<<<"U+AB79">>, <<"Ꭹ">>>>,
   <<<<"U+AB7A">>, <<"Ꭺ">>>>, <<<<"U+AB7B">>, <<"Ꭻ">>>>, <<<<"U+AB7C">>, <<"Ꭼ">>>>,
   <<<<"U+AB7D">>, <<"Ꭽ">>>>, <<<<"U+AB7E">>, <<"Ꭾ">>>>, <<<<"U+AB7F">>, <<"Ꭿ">>>>,
   <<<<"ꮀ">>, <<"Ꮀ">>>>, <<<<"ꮁ">>, <<"Ꮁ">>>>, <<<<"ꮂ">>, <<"Ꮂ">>>>, <<<<"ꮃ">>, <<"Ꮃ">>>>,
   <<<<"ꮄ">>, <<"Ꮄ">>>>, <<<<"ꮅ">>, <<"Ꮅ">>>>, <<<<"ꮆ">>, <<"Ꮆ">>>>, <<<<"ꮇ">>, <<"Ꮇ">>>>,
   <<<<"ꮈ">>, <<"Ꮈ">>>>, <<<<"ꮉ">>, <<"Ꮉ">>>>, <<<<"ꮊ">>, <<"Ꮊ">>>>, <<<<"ꮋ">>, <<"Ꮋ">>>>,
   <<<<"ꮌ">>, <<"Ꮌ">>>>, <<<<"ꮍ">>, <<"Ꮍ">>>>, <<<<"ꮎ">>, <<"Ꮎ">>>>, <<<<"ꮏ">>, <<"Ꮏ">>>>,
   <<<<"ꮐ">>, <<"Ꮐ">>>>, <<<<"ꮑ">>, <<"Ꮑ">>>>, <<<<"ꮒ">>, <<"Ꮒ">>>>, <<<<"ꮓ">>, <<"Ꮓ">>>>,
   <<<<"ꮔ">>, <<"Ꮔ">>>>, <<<<"ꮕ">>, <<"Ꮕ">>>>, <<<<"ꮖ">>, <<"Ꮖ">>>>, <<<<"ꮗ">>, <<"Ꮗ">>>>,
   <<<<"ꮘ">>, <<"Ꮘ">>>>, <<<<"ꮙ">>, <<"Ꮙ">>>>, <<<<"ꮚ">>, <<"Ꮚ">>>>, <<<<"ꮛ">>, <<"Ꮛ">>>>,
   <<<<"ꮜ">>, <<"Ꮜ">>>>, <<<<"ꮝ">>, <<"Ꮝ">>>>, <<<<"ꮞ">>, <<"Ꮞ">>>>, <<<<"ꮟ">>, <<"Ꮟ">>>>,
   <<<<"ꮠ">>, <<"Ꮠ">>>>, <<<<"ꮡ">>, <<"Ꮡ">>>>, <<<<"ꮢ">>, <<"Ꮢ">>>>, <<<<"ꮣ">>, <<"Ꮣ">>>>,
   <<<<"ꮤ">>, <<"Ꮤ">>>>, <<<<"ꮥ">>, <<"Ꮥ">>>>, <<<<"ꮦ">>, <<"Ꮦ">>>>, <<<<"ꮧ">>, <<"Ꮧ">>>>,
   <<<<"ꮨ">>, <<"Ꮨ">>>>, <<<<"ꮩ">>, <<"Ꮩ">>>>, <<<<"ꮪ">>, <<"Ꮪ">>>>, <<<<"ꮫ">>, <<"Ꮫ">>>>,
   <<<<"ꮬ">>, <<"Ꮬ">>>>, <<<<"ꮭ">>, <<"Ꮭ">>>>, <<<<"ꮮ">>, <<"Ꮮ">>>>, <<<<"ꮯ">>, <<"Ꮯ">>>>,
   <<<<"ꮰ">>, <<"Ꮰ">>>>, <<<<"ꮱ">>, <<"Ꮱ">>>>, <<<<"ꮲ">>, <<"Ꮲ">>>>, <<<<"ꮳ">>, <<"Ꮳ">>>>,
   <<<<"ꮴ">>, <<"Ꮴ">>>>, <<<<"ꮵ">>, <<"Ꮵ">>>>, <<<<"ꮶ">>, <<"Ꮶ">>>>, <<<<"ꮷ">>, <<"Ꮷ">>>>,
   <<<<"ꮸ">>, <<"Ꮸ">>>>, <<<<"ꮹ">>, <<"Ꮹ">>>>, <<<<"ꮺ">>, <<"Ꮺ">>>>, <<<<"ꮻ">>, <<"Ꮻ">>>>,
   <<<<"ꮼ">>, <<"Ꮼ">>>>, <<<<"ꮽ">>, <<"Ꮽ">>>>, <<<<"ꮾ">>, <<"Ꮾ">>>>, <<<<"ꮿ">>, <<"Ꮿ">>>>,
   <<<<"U+FB00">>, <<"F", "F">>>>, <<<<"U+FB01">>, <<"F", "I">>>>, <<<<"U+FB02">>, <<"F", "L">>>>,
   <<<<"U+FB03">>, <<"F", "F", "I">>>>, <<<<"U+FB04">>, <<"F", "F", "L">>>>,
   <<<<"U+FB05">>, <<"S", "T">>>>, <<<<"U+FB06">>, <<"S", "T">>>>,
   <<<<"U+FB13">>, <<"U+0544", "U+0546">>>>, <<<<"U+FB14">>, <<"U+0544", "U+0535">>>>,
   <<<<"U+FB15">>, <<"U+0544", "U+053B">>>>, <<<<"U+FB16">>, <<"U+054E", "U+0546">>>>,
   <<<<"U+FB17">>, <<"U+0544", "U+053D">>>>, <<<<"U+FF41">>, <<"U+FF21">>>>,
   <<<<"U+FF42">>, <<"U+FF22">>>>, <<<<"U+FF43">>, <<"U+FF23">>>>, <<<<"U+FF44">>, <<"U+FF24">>>>,
   <<<<"U+FF45">>, <<"U+FF25">>>>, <<<<"U+FF46">>, <<"U+FF26">>>>, <<<<"U+FF47">>, <<"U+FF27">>>>,
   <<<<"U+FF48">>, <<"U+FF28">>>>, <<<<"U+FF49">>, <<"U+FF29">>>>, <<<<"U+FF4A">>, <<"U+FF2A">>>>,
   <<<<"U+FF4B">>, <<"U+FF2B">>>>, <<<<"U+FF4C">>, <<"U+FF2C">>>>, <<<<"U+FF4D">>, <<"U+FF2D">>>>,
   <<<<"U+FF4E">>, <<"U+FF2E">>>>, <<<<"U+FF4F">>, <<"U+FF2F">>>>, <<<<"U+FF50">>, <<"U+FF30">>>>,
   <<<<"U+FF51">>, <<"U+FF31">>>>, <<<<"U+FF52">>, <<"U+FF32">>>>, <<<<"U+FF53">>, <<"U+FF33">>>>,
   <<<<"U+FF54">>, <<"U+FF34">>>>, <<<<"U+FF55">>, <<"U+FF35">>>>, <<<<"U+FF56">>, <<"U+FF36">>>>,
   <<<<"U+FF57">>, <<"U+FF37">>>>, <<<<"U+FF58">>, <<"U+FF38">>>>, <<<<"U+FF59">>, <<"U+FF39">>>>,
   <<<<"U+FF5A">>, <<"U+FF3A">>>>, <<<<"U+D801", "U+DC28">>, <<"U+D801", "U+DC00">>>>,
   <<<<"U+D801", "U+DC29">>, <<"U+D801", "U+DC01">>>>,
   <<<<"U+D801", "U+DC2A">>, <<"U+D801", "U+DC02">>>>,
   <<<<"U+D801", "U+DC2B">>, <<"U+D801", "U+DC03">>>>,
   <<<<"U+D801", "U+DC2C">>, <<"U+D801", "U+DC04">>>>,
   <<<<"U+D801", "U+DC2D">>, <<"U+D801", "U+DC05">>>>,
   <<<<"U+D801", "U+DC2E">>, <<"U+D801", "U+DC06">>>>,
   <<<<"U+D801", "U+DC2F">>, <<"U+D801", "U+DC07">>>>,
   <<<<"U+D801", "U+DC30">>, <<"U+D801", "U+DC08">>>>,
   <<<<"U+D801", "U+DC31">>, <<"U+D801", "U+DC09">>>>,
   <<<<"U+D801", "U+DC32">>, <<"U+D801", "U+DC0A">>>>,
   <<<<"U+D801", "U+DC33">>, <<"U+D801", "U+DC0B">>>>,
   <<<<"U+D801", "U+DC34">>, <<"U+D801", "U+DC0C">>>>,
   <<<<"U+D801", "U+DC35">>, <<"U+D801", "U+DC0D">>>>,
   <<<<"U+D801", "U+DC36">>, <<"U+D801", "U+DC0E">>>>,
   <<<<"U+D801", "U+DC37">>, <<"U+D801", "U+DC0F">>>>,
   <<<<"U+D801", "U+DC38">>, <<"U+D801", "U+DC10">>>>,
   <<<<"U+D801", "U+DC39">>, <<"U+D801", "U+DC11">>>>,
   <<<<"U+D801", "U+DC3A">>, <<"U+D801", "U+DC12">>>>,
   <<<<"U+D801", "U+DC3B">>, <<"U+D801", "U+DC13">>>>,
   <<<<"U+D801", "U+DC3C">>, <<"U+D801", "U+DC14">>>>,
   <<<<"U+D801", "U+DC3D">>, <<"U+D801", "U+DC15">>>>,
   <<<<"U+D801", "U+DC3E">>, <<"U+D801", "U+DC16">>>>,
   <<<<"U+D801", "U+DC3F">>, <<"U+D801", "U+DC17">>>>,
   <<<<"U+D801", "U+DC40">>, <<"U+D801", "U+DC18">>>>,
   <<<<"U+D801", "U+DC41">>, <<"U+D801", "U+DC19">>>>,
   <<<<"U+D801", "U+DC42">>, <<"U+D801", "U+DC1A">>>>,
   <<<<"U+D801", "U+DC43">>, <<"U+D801", "U+DC1B">>>>,
   <<<<"U+D801", "U+DC44">>, <<"U+D801", "U+DC1C">>>>,
   <<<<"U+D801", "U+DC45">>, <<"U+D801", "U+DC1D">>>>,
   <<<<"U+D801", "U+DC46">>, <<"U+D801", "U+DC1E">>>>,
   <<<<"U+D801", "U+DC47">>, <<"U+D801", "U+DC1F">>>>,
   <<<<"U+D801", "U+DC48">>, <<"U+D801", "U+DC20">>>>,
   <<<<"U+D801", "U+DC49">>, <<"U+D801", "U+DC21">>>>,
   <<<<"U+D801", "U+DC4A">>, <<"U+D801", "U+DC22">>>>,
   <<<<"U+D801", "U+DC4B">>, <<"U+D801", "U+DC23">>>>,
   <<<<"U+D801", "U+DC4C">>, <<"U+D801", "U+DC24">>>>,
   <<<<"U+D801", "U+DC4D">>, <<"U+D801", "U+DC25">>>>,
   <<<<"U+D801", "U+DC4E">>, <<"U+D801", "U+DC26">>>>,
   <<<<"U+D801", "U+DC4F">>, <<"U+D801", "U+DC27">>>>,
   <<<<"U+D801", "U+DCD8">>, <<"U+D801", "U+DCB0">>>>,
   <<<<"U+D801", "U+DCD9">>, <<"U+D801", "U+DCB1">>>>,
   <<<<"U+D801", "U+DCDA">>, <<"U+D801", "U+DCB2">>>>,
   <<<<"U+D801", "U+DCDB">>, <<"U+D801", "U+DCB3">>>>,
   <<<<"U+D801", "U+DCDC">>, <<"U+D801", "U+DCB4">>>>,
   <<<<"U+D801", "U+DCDD">>, <<"U+D801", "U+DCB5">>>>,
   <<<<"U+D801", "U+DCDE">>, <<"U+D801", "U+DCB6">>>>,
   <<<<"U+D801", "U+DCDF">>, <<"U+D801", "U+DCB7">>>>,
   <<<<"U+D801", "U+DCE0">>, <<"U+D801", "U+DCB8">>>>,
   <<<<"U+D801", "U+DCE1">>, <<"U+D801", "U+DCB9">>>>,
   <<<<"U+D801", "U+DCE2">>, <<"U+D801", "U+DCBA">>>>,
   <<<<"U+D801", "U+DCE3">>, <<"U+D801", "U+DCBB">>>>,
   <<<<"U+D801", "U+DCE4">>, <<"U+D801", "U+DCBC">>>>,
   <<<<"U+D801", "U+DCE5">>, <<"U+D801", "U+DCBD">>>>,
   <<<<"U+D801", "U+DCE6">>, <<"U+D801", "U+DCBE">>>>,
   <<<<"U+D801", "U+DCE7">>, <<"U+D801", "U+DCBF">>>>,
   <<<<"U+D801", "U+DCE8">>, <<"U+D801", "U+DCC0">>>>,
   <<<<"U+D801", "U+DCE9">>, <<"U+D801", "U+DCC1">>>>,
   <<<<"U+D801", "U+DCEA">>, <<"U+D801", "U+DCC2">>>>,
   <<<<"U+D801", "U+DCEB">>, <<"U+D801", "U+DCC3">>>>,
   <<<<"U+D801", "U+DCEC">>, <<"U+D801", "U+DCC4">>>>,
   <<<<"U+D801", "U+DCED">>, <<"U+D801", "U+DCC5">>>>,
   <<<<"U+D801", "U+DCEE">>, <<"U+D801", "U+DCC6">>>>,
   <<<<"U+D801", "U+DCEF">>, <<"U+D801", "U+DCC7">>>>,
   <<<<"U+D801", "U+DCF0">>, <<"U+D801", "U+DCC8">>>>,
   <<<<"U+D801", "U+DCF1">>, <<"U+D801", "U+DCC9">>>>,
   <<<<"U+D801", "U+DCF2">>, <<"U+D801", "U+DCCA">>>>,
   <<<<"U+D801", "U+DCF3">>, <<"U+D801", "U+DCCB">>>>,
   <<<<"U+D801", "U+DCF4">>, <<"U+D801", "U+DCCC">>>>,
   <<<<"U+D801", "U+DCF5">>, <<"U+D801", "U+DCCD">>>>,
   <<<<"U+D801", "U+DCF6">>, <<"U+D801", "U+DCCE">>>>,
   <<<<"U+D801", "U+DCF7">>, <<"U+D801", "U+DCCF">>>>,
   <<<<"U+D801", "U+DCF8">>, <<"U+D801", "U+DCD0">>>>,
   <<<<"U+D801", "U+DCF9">>, <<"U+D801", "U+DCD1">>>>,
   <<<<"U+D801", "U+DCFA">>, <<"U+D801", "U+DCD2">>>>,
   <<<<"U+D801", "U+DCFB">>, <<"U+D801", "U+DCD3">>>>,
   <<<<"U+D801", "U+DD97">>, <<"U+D801", "U+DD70">>>>,
   <<<<"U+D801", "U+DD98">>, <<"U+D801", "U+DD71">>>>,
   <<<<"U+D801", "U+DD99">>, <<"U+D801", "U+DD72">>>>,
   <<<<"U+D801", "U+DD9A">>, <<"U+D801", "U+DD73">>>>,
   <<<<"U+D801", "U+DD9B">>, <<"U+D801", "U+DD74">>>>,
   <<<<"U+D801", "U+DD9C">>, <<"U+D801", "U+DD75">>>>,
   <<<<"U+D801", "U+DD9D">>, <<"U+D801", "U+DD76">>>>,
   <<<<"U+D801", "U+DD9E">>, <<"U+D801", "U+DD77">>>>,
   <<<<"U+D801", "U+DD9F">>, <<"U+D801", "U+DD78">>>>,
   <<<<"U+D801", "U+DDA0">>, <<"U+D801", "U+DD79">>>>,
   <<<<"U+D801", "U+DDA1">>, <<"U+D801", "U+DD7A">>>>,
   <<<<"U+D801", "U+DDA3">>, <<"U+D801", "U+DD7C">>>>,
   <<<<"U+D801", "U+DDA4">>, <<"U+D801", "U+DD7D">>>>,
   <<<<"U+D801", "U+DDA5">>, <<"U+D801", "U+DD7E">>>>,
   <<<<"U+D801", "U+DDA6">>, <<"U+D801", "U+DD7F">>>>,
   <<<<"U+D801", "U+DDA7">>, <<"U+D801", "U+DD80">>>>,
   <<<<"U+D801", "U+DDA8">>, <<"U+D801", "U+DD81">>>>,
   <<<<"U+D801", "U+DDA9">>, <<"U+D801", "U+DD82">>>>,
   <<<<"U+D801", "U+DDAA">>, <<"U+D801", "U+DD83">>>>,
   <<<<"U+D801", "U+DDAB">>, <<"U+D801", "U+DD84">>>>,
   <<<<"U+D801", "U+DDAC">>, <<"U+D801", "U+DD85">>>>,
   <<<<"U+D801", "U+DDAD">>, <<"U+D801", "U+DD86">>>>,
   <<<<"U+D801", "U+DDAE">>, <<"U+D801", "U+DD87">>>>,
   <<<<"U+D801", "U+DDAF">>, <<"U+D801", "U+DD88">>>>,
   <<<<"U+D801", "U+DDB0">>, <<"U+D801", "U+DD89">>>>,
   <<<<"U+D801", "U+DDB1">>, <<"U+D801", "U+DD8A">>>>,
   <<<<"U+D801", "U+DDB3">>, <<"U+D801", "U+DD8C">>>>,
   <<<<"U+D801", "U+DDB4">>, <<"U+D801", "U+DD8D">>>>,
   <<<<"U+D801", "U+DDB5">>, <<"U+D801", "U+DD8E">>>>,
   <<<<"U+D801", "U+DDB6">>, <<"U+D801", "U+DD8F">>>>,
   <<<<"U+D801", "U+DDB7">>, <<"U+D801", "U+DD90">>>>,
   <<<<"U+D801", "U+DDB8">>, <<"U+D801", "U+DD91">>>>,
   <<<<"U+D801", "U+DDB9">>, <<"U+D801", "U+DD92">>>>,
   <<<<"U+D801", "U+DDBB">>, <<"U+D801", "U+DD94">>>>,
   <<<<"U+D801", "U+DDBC">>, <<"U+D801", "U+DD95">>>>,
   <<<<"U+D803", "U+DCC0">>, <<"U+D803", "U+DC80">>>>,
   <<<<"U+D803", "U+DCC1">>, <<"U+D803", "U+DC81">>>>,
   <<<<"U+D803", "U+DCC2">>, <<"U+D803", "U+DC82">>>>,
   <<<<"U+D803", "U+DCC3">>, <<"U+D803", "U+DC83">>>>,
   <<<<"U+D803", "U+DCC4">>, <<"U+D803", "U+DC84">>>>,
   <<<<"U+D803", "U+DCC5">>, <<"U+D803", "U+DC85">>>>,
   <<<<"U+D803", "U+DCC6">>, <<"U+D803", "U+DC86">>>>,
   <<<<"U+D803", "U+DCC7">>, <<"U+D803", "U+DC87">>>>,
   <<<<"U+D803", "U+DCC8">>, <<"U+D803", "U+DC88">>>>,
   <<<<"U+D803", "U+DCC9">>, <<"U+D803", "U+DC89">>>>,
   <<<<"U+D803", "U+DCCA">>, <<"U+D803", "U+DC8A">>>>,
   <<<<"U+D803", "U+DCCB">>, <<"U+D803", "U+DC8B">>>>,
   <<<<"U+D803", "U+DCCC">>, <<"U+D803", "U+DC8C">>>>,
   <<<<"U+D803", "U+DCCD">>, <<"U+D803", "U+DC8D">>>>,
   <<<<"U+D803", "U+DCCE">>, <<"U+D803", "U+DC8E">>>>,
   <<<<"U+D803", "U+DCCF">>, <<"U+D803", "U+DC8F">>>>,
   <<<<"U+D803", "U+DCD0">>, <<"U+D803", "U+DC90">>>>,
   <<<<"U+D803", "U+DCD1">>, <<"U+D803", "U+DC91">>>>,
   <<<<"U+D803", "U+DCD2">>, <<"U+D803", "U+DC92">>>>,
   <<<<"U+D803", "U+DCD3">>, <<"U+D803", "U+DC93">>>>,
   <<<<"U+D803", "U+DCD4">>, <<"U+D803", "U+DC94">>>>,
   <<<<"U+D803", "U+DCD5">>, <<"U+D803", "U+DC95">>>>,
   <<<<"U+D803", "U+DCD6">>, <<"U+D803", "U+DC96">>>>,
   <<<<"U+D803", "U+DCD7">>, <<"U+D803", "U+DC97">>>>,
   <<<<"U+D803", "U+DCD8">>, <<"U+D803", "U+DC98">>>>,
   <<<<"U+D803", "U+DCD9">>, <<"U+D803", "U+DC99">>>>,
   <<<<"U+D803", "U+DCDA">>, <<"U+D803", "U+DC9A">>>>,
   <<<<"U+D803", "U+DCDB">>, <<"U+D803", "U+DC9B">>>>,
   <<<<"U+D803", "U+DCDC">>, <<"U+D803", "U+DC9C">>>>,
   <<<<"U+D803", "U+DCDD">>, <<"U+D803", "U+DC9D">>>>,
   <<<<"U+D803", "U+DCDE">>, <<"U+D803", "U+DC9E">>>>,
   <<<<"U+D803", "U+DCDF">>, <<"U+D803", "U+DC9F">>>>,
   <<<<"U+D803", "U+DCE0">>, <<"U+D803", "U+DCA0">>>>,
   <<<<"U+D803", "U+DCE1">>, <<"U+D803", "U+DCA1">>>>,
   <<<<"U+D803", "U+DCE2">>, <<"U+D803", "U+DCA2">>>>,
   <<<<"U+D803", "U+DCE3">>, <<"U+D803", "U+DCA3">>>>,
   <<<<"U+D803", "U+DCE4">>, <<"U+D803", "U+DCA4">>>>,
   <<<<"U+D803", "U+DCE5">>, <<"U+D803", "U+DCA5">>>>,
   <<<<"U+D803", "U+DCE6">>, <<"U+D803", "U+DCA6">>>>,
   <<<<"U+D803", "U+DCE7">>, <<"U+D803", "U+DCA7">>>>,
   <<<<"U+D803", "U+DCE8">>, <<"U+D803", "U+DCA8">>>>,
   <<<<"U+D803", "U+DCE9">>, <<"U+D803", "U+DCA9">>>>,
   <<<<"U+D803", "U+DCEA">>, <<"U+D803", "U+DCAA">>>>,
   <<<<"U+D803", "U+DCEB">>, <<"U+D803", "U+DCAB">>>>,
   <<<<"U+D803", "U+DCEC">>, <<"U+D803", "U+DCAC">>>>,
   <<<<"U+D803", "U+DCED">>, <<"U+D803", "U+DCAD">>>>,
   <<<<"U+D803", "U+DCEE">>, <<"U+D803", "U+DCAE">>>>,
   <<<<"U+D803", "U+DCEF">>, <<"U+D803", "U+DCAF">>>>,
   <<<<"U+D803", "U+DCF0">>, <<"U+D803", "U+DCB0">>>>,
   <<<<"U+D803", "U+DCF1">>, <<"U+D803", "U+DCB1">>>>,
   <<<<"U+D803", "U+DCF2">>, <<"U+D803", "U+DCB2">>>>,
   <<<<"U+D806", "U+DCC0">>, <<"U+D806", "U+DCA0">>>>,
   <<<<"U+D806", "U+DCC1">>, <<"U+D806", "U+DCA1">>>>,
   <<<<"U+D806", "U+DCC2">>, <<"U+D806", "U+DCA2">>>>,
   <<<<"U+D806", "U+DCC3">>, <<"U+D806", "U+DCA3">>>>,
   <<<<"U+D806", "U+DCC4">>, <<"U+D806", "U+DCA4">>>>,
   <<<<"U+D806", "U+DCC5">>, <<"U+D806", "U+DCA5">>>>,
   <<<<"U+D806", "U+DCC6">>, <<"U+D806", "U+DCA6">>>>,
   <<<<"U+D806", "U+DCC7">>, <<"U+D806", "U+DCA7">>>>,
   <<<<"U+D806", "U+DCC8">>, <<"U+D806", "U+DCA8">>>>,
   <<<<"U+D806", "U+DCC9">>, <<"U+D806", "U+DCA9">>>>,
   <<<<"U+D806", "U+DCCA">>, <<"U+D806", "U+DCAA">>>>,
   <<<<"U+D806", "U+DCCB">>, <<"U+D806", "U+DCAB">>>>,
   <<<<"U+D806", "U+DCCC">>, <<"U+D806", "U+DCAC">>>>,
   <<<<"U+D806", "U+DCCD">>, <<"U+D806", "U+DCAD">>>>,
   <<<<"U+D806", "U+DCCE">>, <<"U+D806", "U+DCAE">>>>,
   <<<<"U+D806", "U+DCCF">>, <<"U+D806", "U+DCAF">>>>,
   <<<<"U+D806", "U+DCD0">>, <<"U+D806", "U+DCB0">>>>,
   <<<<"U+D806", "U+DCD1">>, <<"U+D806", "U+DCB1">>>>,
   <<<<"U+D806", "U+DCD2">>, <<"U+D806", "U+DCB2">>>>,
   <<<<"U+D806", "U+DCD3">>, <<"U+D806", "U+DCB3">>>>,
   <<<<"U+D806", "U+DCD4">>, <<"U+D806", "U+DCB4">>>>,
   <<<<"U+D806", "U+DCD5">>, <<"U+D806", "U+DCB5">>>>,
   <<<<"U+D806", "U+DCD6">>, <<"U+D806", "U+DCB6">>>>,
   <<<<"U+D806", "U+DCD7">>, <<"U+D806", "U+DCB7">>>>,
   <<<<"U+D806", "U+DCD8">>, <<"U+D806", "U+DCB8">>>>,
   <<<<"U+D806", "U+DCD9">>, <<"U+D806", "U+DCB9">>>>,
   <<<<"U+D806", "U+DCDA">>, <<"U+D806", "U+DCBA">>>>,
   <<<<"U+D806", "U+DCDB">>, <<"U+D806", "U+DCBB">>>>,
   <<<<"U+D806", "U+DCDC">>, <<"U+D806", "U+DCBC">>>>,
   <<<<"U+D806", "U+DCDD">>, <<"U+D806", "U+DCBD">>>>,
   <<<<"U+D806", "U+DCDE">>, <<"U+D806", "U+DCBE">>>>,
   <<<<"U+D806", "U+DCDF">>, <<"U+D806", "U+DCBF">>>>,
   <<<<"U+D81B", "U+DE60">>, <<"U+D81B", "U+DE40">>>>,
   <<<<"U+D81B", "U+DE61">>, <<"U+D81B", "U+DE41">>>>,
   <<<<"U+D81B", "U+DE62">>, <<"U+D81B", "U+DE42">>>>,
   <<<<"U+D81B", "U+DE63">>, <<"U+D81B", "U+DE43">>>>,
   <<<<"U+D81B", "U+DE64">>, <<"U+D81B", "U+DE44">>>>,
   <<<<"U+D81B", "U+DE65">>, <<"U+D81B", "U+DE45">>>>,
   <<<<"U+D81B", "U+DE66">>, <<"U+D81B", "U+DE46">>>>,
   <<<<"U+D81B", "U+DE67">>, <<"U+D81B", "U+DE47">>>>,
   <<<<"U+D81B", "U+DE68">>, <<"U+D81B", "U+DE48">>>>,
   <<<<"U+D81B", "U+DE69">>, <<"U+D81B", "U+DE49">>>>,
   <<<<"U+D81B", "U+DE6A">>, <<"U+D81B", "U+DE4A">>>>,
   <<<<"U+D81B", "U+DE6B">>, <<"U+D81B", "U+DE4B">>>>,
   <<<<"U+D81B", "U+DE6C">>, <<"U+D81B", "U+DE4C">>>>,
   <<<<"U+D81B", "U+DE6D">>, <<"U+D81B", "U+DE4D">>>>,
   <<<<"U+D81B", "U+DE6E">>, <<"U+D81B", "U+DE4E">>>>,
   <<<<"U+D81B", "U+DE6F">>, <<"U+D81B", "U+DE4F">>>>,
   <<<<"U+D81B", "U+DE70">>, <<"U+D81B", "U+DE50">>>>,
   <<<<"U+D81B", "U+DE71">>, <<"U+D81B", "U+DE51">>>>,
   <<<<"U+D81B", "U+DE72">>, <<"U+D81B", "U+DE52">>>>,
   <<<<"U+D81B", "U+DE73">>, <<"U+D81B", "U+DE53">>>>,
   <<<<"U+D81B", "U+DE74">>, <<"U+D81B", "U+DE54">>>>,
   <<<<"U+D81B", "U+DE75">>, <<"U+D81B", "U+DE55">>>>,
   <<<<"U+D81B", "U+DE76">>, <<"U+D81B", "U+DE56">>>>,
   <<<<"U+D81B", "U+DE77">>, <<"U+D81B", "U+DE57">>>>,
   <<<<"U+D81B", "U+DE78">>, <<"U+D81B", "U+DE58">>>>,
   <<<<"U+D81B", "U+DE79">>, <<"U+D81B", "U+DE59">>>>,
   <<<<"U+D81B", "U+DE7A">>, <<"U+D81B", "U+DE5A">>>>,
   <<<<"U+D81B", "U+DE7B">>, <<"U+D81B", "U+DE5B">>>>,
   <<<<"U+D81B", "U+DE7C">>, <<"U+D81B", "U+DE5C">>>>,
   <<<<"U+D81B", "U+DE7D">>, <<"U+D81B", "U+DE5D">>>>,
   <<<<"U+D81B", "U+DE7E">>, <<"U+D81B", "U+DE5E">>>>,
   <<<<"U+D81B", "U+DE7F">>, <<"U+D81B", "U+DE5F">>>>,
   <<<<"U+D83A", "U+DD22">>, <<"U+D83A", "U+DD00">>>>,
   <<<<"U+D83A", "U+DD23">>, <<"U+D83A", "U+DD01">>>>,
   <<<<"U+D83A", "U+DD24">>, <<"U+D83A", "U+DD02">>>>,
   <<<<"U+D83A", "U+DD25">>, <<"U+D83A", "U+DD03">>>>,
   <<<<"U+D83A", "U+DD26">>, <<"U+D83A", "U+DD04">>>>,
   <<<<"U+D83A", "U+DD27">>, <<"U+D83A", "U+DD05">>>>,
   <<<<"U+D83A", "U+DD28">>, <<"U+D83A", "U+DD06">>>>,
   <<<<"U+D83A", "U+DD29">>, <<"U+D83A", "U+DD07">>>>,
   <<<<"U+D83A", "U+DD2A">>, <<"U+D83A", "U+DD08">>>>,
   <<<<"U+D83A", "U+DD2B">>, <<"U+D83A", "U+DD09">>>>,
   <<<<"U+D83A", "U+DD2C">>, <<"U+D83A", "U+DD0A">>>>,
   <<<<"U+D83A", "U+DD2D">>, <<"U+D83A", "U+DD0B">>>>,
   <<<<"U+D83A", "U+DD2E">>, <<"U+D83A", "U+DD0C">>>>,
   <<<<"U+D83A", "U+DD2F">>, <<"U+D83A", "U+DD0D">>>>,
   <<<<"U+D83A", "U+DD30">>, <<"U+D83A", "U+DD0E">>>>,
   <<<<"U+D83A", "U+DD31">>, <<"U+D83A", "U+DD0F">>>>,
   <<<<"U+D83A", "U+DD32">>, <<"U+D83A", "U+DD10">>>>,
   <<<<"U+D83A", "U+DD33">>, <<"U+D83A", "U+DD11">>>>,
   <<<<"U+D83A", "U+DD34">>, <<"U+D83A", "U+DD12">>>>,
   <<<<"U+D83A", "U+DD35">>, <<"U+D83A", "U+DD13">>>>,
   <<<<"U+D83A", "U+DD36">>, <<"U+D83A", "U+DD14">>>>,
   <<<<"U+D83A", "U+DD37">>, <<"U+D83A", "U+DD15">>>>,
   <<<<"U+D83A", "U+DD38">>, <<"U+D83A", "U+DD16">>>>,
   <<<<"U+D83A", "U+DD39">>, <<"U+D83A", "U+DD17">>>>,
   <<<<"U+D83A", "U+DD3A">>, <<"U+D83A", "U+DD18">>>>,
   <<<<"U+D83A", "U+DD3B">>, <<"U+D83A", "U+DD19">>>>,
   <<<<"U+D83A", "U+DD3C">>, <<"U+D83A", "U+DD1A">>>>,
   <<<<"U+D83A", "U+DD3D">>, <<"U+D83A", "U+DD1B">>>>,
   <<<<"U+D83A", "U+DD3E">>, <<"U+D83A", "U+DD1C">>>>,
   <<<<"U+D83A", "U+DD3F">>, <<"U+D83A", "U+DD1D">>>>,
   <<<<"U+D83A", "U+DD40">>, <<"U+D83A", "U+DD1E">>>>,
   <<<<"U+D83A", "U+DD41">>, <<"U+D83A", "U+DD1F">>>>,
   <<<<"U+D83A", "U+DD42">>, <<"U+D83A", "U+DD20">>>>,
   <<<<"U+D83A", "U+DD43">>, <<"U+D83A", "U+DD21">>>>>>,
   unicode16 |->
     <<<<<<"ƛ">>, <<"Ƛ">>>>, <<<<"U+0264">>, <<"Ɤ">>>>, <<<<"ᲊ">>, <<"Ᲊ">>>>, <<<<"ꟍ">>, <<"Ꟍ">>>>,
       <<<<"ꟛ">>, <<"Ꟛ">>>>, <<<<"U+D803", "U+DD70">>, <<"U+D803", "U+DD50">>>>,
       <<<<"U+D803", "U+DD71">>, <<"U+D803", "U+DD51">>>>,
       <<<<"U+D803", "U+DD72">>, <<"U+D803", "U+DD52">>>>,
       <<<<"U+D803", "U+DD73">>, <<"U+D803", "U+DD53">>>>,
       <<<<"U+D803", "U+DD74">>, <<"U+D803", "U+DD54">>>>,
       <<<<"U+D803", "U+DD75">>, <<"U+D803", "U+DD55">>>>,
       <<<<"U+D803", "U+DD76">>, <<"U+D803", "U+DD56">>>>,
       <<<<"U+D803", "U+DD77">>, <<"U+D803", "U+DD57">>>>,
       <<<<"U+D803", "U+DD78">>, <<"U+D803", "U+DD58">>>>,
       <<<<"U+D803", "U+DD79">>, <<"U+D803", "U+DD59">>>>,
       <<<<"U+D803", "U+DD7A">>, <<"U+D803", "U+DD5A">>>>,
       <<<<"U+D803", "U+DD7B">>, <<"U+D803", "U+DD5B">>>>,
       <<<<"U+D803", "U+DD7C">>, <<"U+D803", "U+DD5C">>>>,
       <<<<"U+D803", "U+DD7D">>, <<"U+D803", "U+DD5D">>>>,
       <<<<"U+D803", "U+DD7E">>, <<"U+D803", "U+DD5E">>>>,
       <<<<"U+D803", "U+DD7F">>, <<"U+D803", "U+DD5F">>>>,
       <<<<"U+D803", "U+DD80">>, <<"U+D803", "U+DD60">>>>,
       <<<<"U+D803", "U+DD81">>, <<"U+D803", "U+DD61">>>>,
       <<<<"U+D803", "U+DD82">>, <<"U+D803", "U+DD62">>>>,
       <<<<"U+D803", "U+DD83">>, <<"U+D803", "U+DD63">>>>,
       <<<<"U+D803", "U+DD84">>, <<"U+D803", "U+DD64">>>>,
       <<<<"U+D803", "U+DD85">>, <<"U+D803", "U+DD65">>>>>>,
   unicode17 |->
     <<<<<<"꟏">>, <<"꟎">>>>, <<<<"ꟓ">>, <<"꟒">>>>, <<<<"ꟕ">>, <<"꟔">>>>,
       <<<<"U+D81B", "U+DEBB">>, <<"U+D81B", "U+DEA0">>>>,
       <<<<"U+D81B", "U+DEBC">>, <<"U+D81B", "U+DEA1">>>>,
       <<<<"U+D81B", "U+DEBD">>, <<"U+D81B", "U+DEA2">>>>,
       <<<<"U+D81B", "U+DEBE">>, <<"U+D81B", "U+DEA3">>>>,
       <<<<"U+D81B", "U+DEBF">>, <<"U+D81B", "U+DEA4">>>>,
       <<<<"U+D81B", "U+DEC0">>, <<"U+D81B", "U+DEA5">>>>,
       <<<<"U+D81B", "U+DEC1">>, <<"U+D81B", "U+DEA6">>>>,
       <<<<"U+D81B", "U+DEC2">>, <<"U+D81B", "U+DEA7">>>>,
       <<<<"U+D81B", "U+DEC3">>, <<"U+D81B", "U+DEA8">>>>,
       <<<<"U+D81B", "U+DEC4">>, <<"U+D81B", "U+DEA9">>>>,
       <<<<"U+D81B", "U+DEC5">>, <<"U+D81B", "U+DEAA">>>>,
       <<<<"U+D81B", "U+DEC6">>, <<"U+D81B", "U+DEAB">>>>,
       <<<<"U+D81B", "U+DEC7">>, <<"U+D81B", "U+DEAC">>>>,
       <<<<"U+D81B", "U+DEC8">>, <<"U+D81B", "U+DEAD">>>>,
       <<<<"U+D81B", "U+DEC9">>, <<"U+D81B", "U+DEAE">>>>,
       <<<<"U+D81B", "U+DECA">>, <<"U+D81B", "U+DEAF">>>>,
       <<<<"U+D81B", "U+DECB">>, <<"U+D81B", "U+DEB0">>>>,
       <<<<"U+D81B", "U+DECC">>, <<"U+D81B", "U+DEB1">>>>,
       <<<<"U+D81B", "U+DECD">>, <<"U+D81B", "U+DEB2">>>>,
       <<<<"U+D81B", "U+DECE">>, <<"U+D81B", "U+DEB3">>>>,
       <<<<"U+D81B", "U+DECF">>, <<"U+D81B", "U+DEB4">>>>,
       <<<<"U+D81B", "U+DED0">>, <<"U+D81B", "U+DEB5">>>>,
       <<<<"U+D81B", "U+DED1">>, <<"U+D81B", "U+DEB6">>>>,
       <<<<"U+D81B", "U+DED2">>, <<"U+D81B", "U+DEB7">>>>,
       <<<<"U+D81B", "U+DED3">>, <<"U+D81B", "U+DEB8">>>>>>]

\* What toUpperCase puts in the place of one code point, given as its code
\* units: the mapping of its row of the table of the host's engine, or the
\* code units themselves when that table has no row for them
UpperCaseOf(units) ==
  LET RowsOf(table) ==
        SelectSeq(table.unicode14, LAMBDA row : row[1] = units)
          \o (IF host.unicode >= 16
                THEN SelectSeq(table.unicode16, LAMBDA row : row[1] = units)
                ELSE <<>>)
          \o (IF host.unicode >= 17
                THEN SelectSeq(table.unicode17, LAMBDA row : row[1] = units)
                ELSE <<>>)
      MappingOr(rows) == IF rows = <<>> THEN units ELSE rows[1][2]
  IN MappingOr(RowsOf(UpperCaseTable))

\* The surrogate code units: U+D800..U+DBFF lead a pair, U+DC00..U+DFFF
\* trail it
SurrogateUnits ==
  LET HexDigits == {"0", "1", "2", "3", "4", "5", "6", "7",
                    "8", "9", "A", "B", "C", "D", "E", "F"}
  IN [high |-> {"U+D" \o a \o b \o c :
                  a \in {"8", "9", "A", "B"}, b \in HexDigits, c \in HexDigits},
      low |-> {"U+D" \o a \o b \o c :
                 a \in {"C", "D", "E", "F"}, b \in HexDigits, c \in HexDigits}]

\* The number of code units of the code point the string begins with: two
\* for a surrogate pair, one for any other code unit, a lone surrogate too
CodePointLength(chars) ==
  IF /\ Len(chars) >= 2
     /\ chars[1] \in SurrogateUnits.high
     /\ chars[2] \in SurrogateUnits.low
    THEN 2 ELSE 1

\* String.prototype.toUpperCase: code point by code point.  The result can
\* be longer than the string.
RECURSIVE ToUpperCase(_)
ToUpperCase(chars) ==
  IF chars = <<>> THEN <<>>
  ELSE UpperCaseOf(SubSeq(chars, 1, CodePointLength(chars)))
         \o ToUpperCase(SubSeq(chars, CodePointLength(chars) + 1, Len(chars)))

\* replace(/\s/g, '')
RemoveWhitespace(chars) == SelectSeq(chars, LAMBDA c : c \notin Whitespace)

StartsWith(chars, prefix) ==
  /\ Len(prefix) <= Len(chars)
  /\ SubSeq(chars, 1, Len(prefix)) = prefix

Includes(chars, part) ==
  \E k \in 1..(Len(chars) - Len(part) + 1) :
    SubSeq(chars, k, k + Len(part) - 1) = part

\* Faulty variant of ExtractCategoryFromProduct: the characters at the three
\* positions are returned without looking them up in ALLOWED_CATEGORIES.
ExtractCategoryAtPositions(productName) ==
  IF productName = <<>> \/ Len(productName) < 9 THEN <<>>
  ELSE LET upperProduct == RemoveWhitespace(ToUpperCase(productName))
       IN IF Len(upperProduct) >= 9
            THEN <<upperProduct[5], upperProduct[8], upperProduct[9]>>
            ELSE <<>>

\* extractCategoryFromProduct: of the upper-cased name without white space,
\* the characters at indexes 4, 7 and 8 when they make an allowed category,
\* else the first allowed category the text starts with, else the first it
\* contains, else ''
ExtractCategoryFromProduct(productName) ==
  LET CategoryOf(upperProduct) ==
        LET extracted == IF Len(upperProduct) >= 9
                           THEN <<upperProduct[5], upperProduct[8], upperProduct[9]>>
                           ELSE <<>>
            cats == 1..Len(ALLOWED_CATEGORIES)
            starting == {k \in cats : StartsWith(upperProduct, ALLOWED_CATEGORIES[k])}
            including == {k \in cats : Includes(upperProduct, ALLOWED_CATEGORIES[k])}
        IN IF Len(upperProduct) >= 9
                /\ \E k \in cats : ALLOWED_CATEGORIES[k] = extracted
             THEN extracted
           ELSE IF starting # {}
             THEN ALLOWED_CATEGORIES[CHOOSE k \in starting : \A j \in starting : k <= j]
           ELSE IF including # {}
             THEN ALLOWED_CATEGORIES[CHOOSE k \in including : \A j \in including : k <= j]
           ELSE <<>>
  IN IF productName = <<>> \/ Len(productName) < 9 THEN <<>>
     ELSE CategoryOf(RemoveWhitespace(ToUpperCase(productName)))

SafeQty(qtyNum) ==
  IF Number_isFinite(qtyNum) /\ qtyNum.num > 0
    THEN NumberValue(MathRoundOfDouble(DoubleOfRatio(qtyNum.num, qtyNum.den)), 1)
    ELSE NumberValue(1, 1)

SafePrice(priceNum) ==
  IF Number_isFinite(priceNum) THEN priceNum ELSE NumberValue(0, 1)

SafeDiscount(discountNum) ==
  IF Number_isFinite(discountNum) THEN discountNum ELSE NumberValue(0, 1)

\* Math.round(safePrice * safeQty * (1 - safeDiscount / 100) * 100) / 100
ComputedAmount(safePrice, safeQty, safeDiscount) ==
  LET price == DoubleOfRatio(safePrice.num, safePrice.den)
      qty == DoubleOfRatio(safeQty.num, safeQty.den)
      discount == DoubleOfRatio(safeDiscount.num, safeDiscount.den)
      product ==
        DoubleTimes(DoubleTimes(price, qty),
                    DoubleMinus(DoubleOfRatio(1, 1), DoubleOver(discount, 100)))
  IN NumberValue(MathRoundOfDouble(DoubleTimes(product, DoubleOfRatio(100, 1))),
                 100)

SafeAmountKeepsZero(amountNum, computedAmount) ==
  IF Number_isFinite(amountNum) THEN amountNum ELSE computedAmount

SafeAmount(amountNum, computedAmount) ==
  IF Number_isFinite(amountNum) /\ amountNum.num # 0
    THEN amountNum
    ELSE computedAmount

\* The callback of jsonData.forEach: acc holds the entries and errors arrays.
\* index counts from 0.  The id keeps the three parts of
\* `import-${Date.now()}-${index}-${random}`; createdAt is the clock reading
\* that its ISO string spells out.  Each entry takes two clock readings and
\* one draw; they follow the reading of the base date, if one was taken.
MapRow(row, index, acc) ==
  LET rowNum == RowNum(index)
      name == TextField(row, NameAliases)
      product == TextField(row, ProductAliases)
      branch == TextField(row, BranchAliases)
      qtyNum == ParseLooseNumber(RawField(row, QuantityAliases, 1))
      priceNum == ParseLooseNumber(RawField(row, PriceAliases, 0))
      discountNum == ParseLooseNumber(RawField(row, DiscountAliases, 0))
      amountNum == ParseLooseNumber(RawField(row, AmountAliases, 0))
      dayValue == DayValue(row)
      dayNum == ParseDayNumber(dayValue)
      missing ==
        (IF name = <<>> THEN <<RowError(rowNum, "Missing name", <<>>)>> ELSE <<>>)
        \o (IF product = <<>> THEN <<RowError(rowNum, "Missing product", <<>>)>> ELSE <<>>)
        \o (IF branch = <<>> THEN <<RowError(rowNum, "Missing branch", <<>>)>> ELSE <<>>)
      safeQty == SafeQty(qtyNum)
      safePrice == SafePrice(priceNum)
      safeDiscount == SafeDiscount(discountNum)
      computedAmount == ComputedAmount(safePrice, safeQty, safeDiscount)
      entryDate == NewDate(host.baseYear, host.baseMonth, dayNum.day)
      category == ExtractCategoryFromProduct(name)
      made == Len(acc.entries)
      entry == [id |-> [prefix |-> "import",
                        time |-> ClockRead(clock, BaseDateReads(host) + 2 * made + 1),
                        index |-> index,
                        random |-> RandomDraw(rng, made + 1)],
                date |-> ToISODate(entryDate, host.utcOffset),
                upc |-> <<>>,
                name |-> name,
                description |-> product,
                qty |-> safeQty,
                category |-> category,
                price |-> safePrice,
                discountPercent |-> safeDiscount,
                amount |-> SafeAmount(amountNum, computedAmount),
                branch |-> branch,
                createdAt |-> ClockRead(clock, BaseDateReads(host) + 2 * made + 2)]
  IN IF dayNum.isNull THEN
       IF dayValue.t # "undefined" /\ Trim(StringOf(dayValue)) # <<>>
         THEN [acc EXCEPT !.errors =
                 @ \o <<RowError(rowNum, "Invalid Date value", Trim(StringOf(dayValue)))>>]
         ELSE acc
     ELSE IF name = <<>> /\ product = <<>> /\ branch = <<>> THEN acc
     ELSE IF name # <<>> /\ product # <<>> /\ branch # <<>>
       THEN [acc EXCEPT !.entries = @ \o <<entry>>]
       ELSE [acc EXCEPT !.errors = @ \o missing]

\* The mutant of ForEachRow that stops once ten errors are collected
RECURSIVE ForEachRowUntilTenErrors(_, _, _)
ForEachRowUntilTenErrors(rows, index, acc) ==
  IF index >= Len(rows) \/ Len(acc.errors) >= 10 THEN acc
  ELSE ForEachRowUntilTenErrors(rows, index + 1, MapRow(rows[index + 1], index, acc))

RECURSIVE ForEachRow(_, _, _)
ForEachRow(rows, index, acc) ==
  IF index >= Len(rows) THEN acc
  ELSE ForEachRow(rows, index + 1, MapRow(rows[index + 1], index, acc))

\* An error message that names no row
FileError(text) == [row |-> 0, text |-> text, value |-> <<>>]

\* The mutant of ImportResult that reports success when no row failed
ImportResultSuccessIfNoErrors(rows) ==
  LET acc == ForEachRow(rows, 0, [entries |-> <<>>, errors |-> <<>>])
  IN [success |-> Len(acc.errors) = 0,
      data |-> acc.entries,
      errors |-> Slice(acc.errors, 0, 10),
      allErrors |-> acc.errors]

\* The ImportResult of a decoded sheet; allErrors is the errors array
\* before errors.slice(0, 10).
ImportResult(rows) ==
  LET acc == ForEachRow(rows, 0, [entries |-> <<>>, errors |-> <<>>])
  IN [success |-> Len(acc.entries) > 0,
      data |-> acc.entries,
      errors |-> Slice(acc.errors, 0, 10),
      allErrors |-> acc.errors]

\* What file.arrayBuffer() and XLSX.read give: a workbook with a first
\* sheet, a workbook without sheet names, one whose first sheet is missing,
\* or an exception: arrayBuffer rejecting with an Error, XLSX.read throwing
\* an Error, or a thrown value that is no Error.
Workbooks ==
  {"sheet", "no sheets", "no worksheet", "unreadable", "bad zip", "thrown value"}

\* The value the try block throws for a workbook that cannot be read
Thrown(w) ==
  CASE w = "unreadable" -> [isError |-> TRUE, message |-> "cannot read"]
    [] w = "bad zip" -> [isError |-> TRUE, message |-> "bad zip"]
    [] OTHER -> [isError |-> FALSE, message |-> ""]

\* `Failed to parse Excel file: ${error instanceof Error ? error.message : 'Unknown error'}`
ParseErrorText(err) ==
  "Failed to parse Excel file: "
    \o (IF err.isError THEN err.message ELSE "Unknown error")

FailedResult(text) ==
  [success |-> FALSE, data |-> <<>>, errors |-> <<FileError(text)>>,
   allErrors |-> <<FileError(text)>>]

\* The mutant of ImportCatch that lets the exception escape
ImportCatchRethrows ==
  /\ importResult' = importResult
  /\ importPc' = "rejected"

\* The catch clause of importFromExcel
ImportCatch ==
  /\ importResult' = FailedResult(ParseErrorText(Thrown(workbook)))
  /\ importPc' = "resolved"

\* importFromExcel, from the call to the settling of its promise.  A sheet
\* that was read takes the base date before its rows, also when no row
\* gives an entry; a file that gives no sheet ends before that.
ImportFromExcel ==
  /\ importPc = "reading"
  /\ IF workbook \in {"unreadable", "bad zip", "thrown value"}
       THEN ImportCatch /\ UNCHANGED <<clock, rng>>
     ELSE IF workbook = "no sheets"
       THEN /\ importResult' = FailedResult("No sheets found in workbook")
            /\ importPc' = "resolved"
            /\ UNCHANGED <<clock, rng>>
     ELSE IF workbook = "no worksheet"
       THEN /\ importResult' = FailedResult("Could not read worksheet")
            /\ importPc' = "resolved"
            /\ UNCHANGED <<clock, rng>>
     ELSE /\ importResult' = ImportResult(jsonData)
          /\ importPc' = "resolved"
          /\ clock' = [clock EXCEPT !.reads = @ + BaseDateReads(host)
                                             + 2 * Len(importResult'.data)]
          /\ rng' = [rng EXCEPT !.drawn = @ + Len(importResult'.data)]
  /\ UNCHANGED <<workbook, jsonData, host, storeVars, idVars, uiVars, cloudVars, persistVars>>

(***************************************************************************)
(* Sheets handed to importFromExcel                                        *)
(*                                                                         *)
(* sheet_to_json with defval '' and raw false gives every row a string     *)
(* under every header of the sheet.                                        *)
(***************************************************************************)
MaxRows == 3

NameCells == {<<>>, <<" ">>, <<"A", "1">>}
ProductCells == {<<>>, <<"P">>}
BranchCells == {<<>>, <<"M", "H", "B">>}
QuantityCells == {<<>>, <<"2">>, <<"0">>, <<"2", ".", "5">>, <<"-", "3">>, <<"a", "b", "c">>}
PriceCells == {<<>>, <<"₱", "1", ",", "2", "0", "0", ".", "0", "0">>, <<"(", "1", "2", "3", ".", "4", "0", ")">>, <<"1", "0", ".", "1", "0">>}
DiscountCells == {<<>>, <<"5", "0", "%">>, <<"1", "5", "0">>}
AmountCells == {<<>>, <<"0">>, <<"9", "9", ".", "9", "9">>, <<"a", "b", "c">>}
DateCells == {<<>>, <<"5">>, <<"9", " ", "(", "E", "A", ")">>, <<"3", "2">>, <<"x">>}

SheetRow(n, p, b, q, pr, d, a, dt) ==
  [Name |-> n, Product |-> p, Branch |-> b, Quantity |-> q, Price |-> pr,
   Discount |-> d, Amount |-> a, Date |-> dt]

\* The same row under other accepted headers
AliasRow(n, p, b, q, pr, d, a, dt) ==
  ("NAME" :> n) @@ ("product" :> p) @@ ("BRANCH" :> b) @@ ("QTY" :> q)
  @@ ("price" :> pr) @@ ("Discount %" :> d) @@ ("amount" :> a) @@ ("DATE" :> dt)

\* A row of a sheet that has no Date column
DatelessRow(n, p, b, q, pr, d, a) ==
  [Name |-> n, Product |-> p, Branch |-> b, Quantity |-> q, Price |-> pr,
   Discount |-> d, Amount |-> a]

SingleRowSheets ==
  {<<SheetRow(n, p, b, q, pr, d, a, dt)>> :
     n \in NameCells, p \in ProductCells, b \in BranchCells,
     q \in QuantityCells, pr \in PriceCells, d \in DiscountCells,
     a \in AmountCells, dt \in DateCells}

OtherHeaderSheets ==
  {<<AliasRow(n, p, b, <<"2">>, <<"1", "0", ".", "1", "0">>, <<"5", "0", "%">>, a, dt)>> :
     n \in NameCells, p \in ProductCells, b \in BranchCells,
     a \in AmountCells, dt \in DateCells}
  \cup
  {<<DatelessRow(n, p, b, <<"2">>, <<"1", "0", ".", "1", "0">>, <<"5", "0", "%">>, a)>> :
     n \in NameCells, p \in ProductCells, b \in BranchCells, a \in AmountCells}

\* Rows of the longer sheets: a complete row, rows with missing fields, a
\* blank row, and rows whose date cell is empty or does not resolve.
RowKinds ==
  {SheetRow(n, <<"P">>, b, <<>>, <<"1", "0", ".", "1", "0">>, <<>>, <<>>, dt) :
     n \in {<<>>, <<"A", "1">>}, b \in BranchCells, dt \in {<<>>, <<"5">>, <<"3", "2">>}}
  \cup {SheetRow(<<>>, <<>>, <<>>, <<>>, <<>>, <<>>, <<>>, <<"5">>)}

LongSheets == UNION {[1..k -> RowKinds] : k \in 2..MaxRows}

Sheets == {<<>>} \cup SingleRowSheets \cup OtherHeaderSheets \cup LongSheets

\* Sheets with up to two errors in each of up to MaxErrorRows rows, then a
\* complete row, then one more row with an error
MaxErrorRows == 6

ErrorRows ==
  {SheetRow(<<>>, <<"P">>, <<>>, <<>>, <<"1", "0", ".", "1", "0">>, <<>>, <<>>, <<"5">>),
   SheetRow(<<"A", "1">>, <<"P">>, <<>>, <<>>, <<"1", "0", ".", "1", "0">>, <<>>, <<>>, <<"5">>),
   SheetRow(<<"A", "1">>, <<"P">>, <<"M", "H", "B">>, <<>>, <<"1", "0", ".", "1", "0">>, <<>>, <<>>, <<"3", "2">>)}

ManyErrorSheets ==
  {[k \in 1..n |-> bad] \o <<SheetRow(<<"A", "1">>, <<"P">>, <<"M", "H", "B">>, <<>>, <<"1", "0", ".", "1", "0">>, <<>>, <<>>, <<"5">>)>> \o <<last>> :
     n \in 1..MaxErrorRows, bad \in ErrorRows, last \in ErrorRows}

\* One complete row with a fractional quantity below and above one
FractionSheets ==
  {<<SheetRow(<<"A", "1">>, <<"P">>, <<"M", "H", "B">>, q, <<"1", "0", ".", "1", "0">>, <<>>, <<>>, <<"5">>)>> :
     q \in {<<"0", ".", "4">>, <<"0", ".", "5">>, <<"1", ".", "4">>}}

\* One complete row whose price * qty * (1 - discount / 100) * 100 lies, as a
\* decimal, half-way between two integers: 100.5, 28.5, 61.5 and 12.5 for a
\* price alone, 2878.5 for 10.10 * 3 at 5 percent
HalfwaySheets ==
  {<<SheetRow(<<"A", "1">>, <<"P">>, <<"M", "H", "B">>, <<>>, pr, <<>>, <<>>, <<"5">>)>> :
     pr \in {<<"1", ".", "0", "0", "5">>, <<"0", ".", "2", "8", "5">>,
             <<"0", ".", "6", "1", "5">>, <<"0", ".", "1", "2", "5">>}}
  \cup
  {<<SheetRow(<<"A", "1">>, <<"P">>, <<"M", "H", "B">>, <<"3">>, <<"1", "0", ".", "1", "0">>, <<"5">>, <<>>, <<"5">>)>>}

\* One row whose Name cell has tabs and line ends around its text, or nothing
\* but them
BlankCharSheets ==
  {<<SheetRow(n, <<"P">>, <<"M", "H", "B">>, <<"\t", "2", "\n">>, <<"1", "0">>, <<>>, <<>>, <<"5">>)>> :
     n \in {<<"\t", "A", "1", "\r", "\n">>, <<"\t", "\r", "\n">>}}

\* One complete row whose price carries the currency's name, with a blank
\* beyond ASCII, or in parentheses and with the symbol
CurrencySheets ==
  {<<SheetRow(<<"A", "1">>, <<"P">>, <<"M", "H", "B">>, <<>>, pr, <<>>, <<>>, <<"5">>)>> :
     pr \in {<<"P", "H", "P", "U+2003", "1", ",", "2", "0", "0", ".", "5", "0">>,
             <<"(", "₱", "P", "H", "P", "5", ".", "5", "0", ")">>,
             <<"P", "₱", "H", "P", "7">>,
             <<"p", "h", "p", "7">>}}

\* One complete row on the first, the fifth and the 31st day of the month
DatedSheets ==
  {<<SheetRow(<<"A", "1">>, <<"P">>, <<"M", "H", "B">>, <<>>, <<"1", "0", ".", "1", "0">>, <<>>, <<>>, dt)>> :
     dt \in {<<"1">>, <<"5">>, <<"3", "1">>}}

\* One complete row for each further shape of the date cell: a day with an
\* annotation, zero, leading zeros, three digits, surrounding blanks, a sign,
\* a fraction, a letter after the digit
DayCells ==
  {<<"3", "1", " ", "-", " ", "p", "r", "o", "m", "o">>, <<"0">>, <<"0", "0">>,
   <<"0", "7">>, <<"1", "2", "3">>, <<" ", "7", " ">>, <<"-", "5">>,
   <<"3", ".", "5">>, <<"1", "x">>, <<"3", "2", "1">>, <<"(", "9", ")">>}

DaySheets ==
  {<<SheetRow(<<"A", "1">>, <<"P">>, <<"M", "H", "B">>, <<>>, <<"1", "0", ".", "1", "0">>, <<>>, <<>>, dt)>> :
     dt \in DayCells}

\* Complete rows of sheets whose headers are spelled in another letter case
\* than the three or four spellings the mapper looks up, and a row that has
\* an empty Name cell next to a filled NAME cell
CaseSheets ==
  {<<("nAME" :> <<"A", "1">>) @@ ("Product" :> <<"P">>)
       @@ ("Branch" :> <<"M", "H", "B">>) @@ ("Quantity" :> <<"2">>)
       @@ ("Price" :> <<"1", "0", ".", "1", "0">>) @@ ("Date" :> <<"5">>)>>,
   <<("Name" :> <<"A", "1">>) @@ ("Product" :> <<"P">>)
       @@ ("Branch" :> <<"M", "H", "B">>) @@ ("Qty" :> <<"2">>)
       @@ ("Price" :> <<"1", "0", ".", "1", "0">>) @@ ("Date" :> <<"5">>)>>,
   <<("NAME" :> <<"A", "1">>) @@ ("QTY" :> <<"2">>)
       @@ SheetRow(<<>>, <<"P">>, <<"M", "H", "B">>, <<>>, <<"1", "0", ".", "1", "0">>, <<>>, <<>>, <<"5">>)>>}

\* One complete row for each shape of the name the category is inferred from
CategoryNames ==
  {<<"2", "0", "2", "5", "M", "C", "L", "H", "B", "5", "5", "0", "2", "0", "0", "9", "-", "1", "3">>,
   <<"2", "0", "2", "5", "m", "c", "l", "h", "b", "5", "5">>,
   <<"2", "0", "2", "5", "M", "C", "L", "U", "M", "5", "5", "0", "2", "0", "0", "9">>,
   <<"M", "L", "P", "-", "1", "2", "3", "4", "5", "X">>,
   <<"X", "X", " ", "M", "S", "H", " ", "Y", "Y", "Y", "Y">>,
   <<"A", "B", "C", "D", "E", "F", "G", "H", "I", "J">>,
   <<"M", " ", "H", " ", "B", " ", "1", " ", "2", " ", "3", " ", "4">>,
   <<"M", "U", "M", "x", "x", "M", "H", "B", "x", "x">>,
   <<"2", "0", "2", "5", " ", "L", "P", " ", "M", "H", "B">>,
   <<"ß", "x", "x", "M", "x", "x", "H", "B", "x">>,
   <<"é", "x", "x", "x", "M", "x", "x", "H", "B">>,
   <<"ß", "x", "x", "x", "M", "x", "H", "B">>,
   <<"µ", "α", "ñ", "x", "m", "x", "x", "h", "b">>,
   <<"ǰ", "x", "x", "M", "x", "x", "H", "B", "x">>,
   <<"x", "x", "x", "x", "m", "x", "ǰ", "h", "b">>,
   <<"ö", "ά", "ǆ", "ⓐ", "m", "ᾳ", "h", "b", "ÿ", "ΐ">>,
   <<"U+D801", "U+DC28", "x", "x", "M", "x", "x", "H", "B">>,
   <<"x", "x", "x", "x", "m", "U+2003", "x", "x", "h", "b">>}

CategorySheets ==
  {<<SheetRow(n, <<"P">>, <<"M", "H", "B">>, <<>>, <<"1", "0", ".", "1", "0">>, <<>>, <<>>, <<"5">>)>> :
     n \in CategoryNames}

\* Names with letters that have an upper-case mapping from Unicode 16.0 or
\* from Unicode 17.0 on: with a category at the three positions, with one
\* the name contains, and without any
EngineNames ==
  {<<"ƛ", "U+0264", "ᲊ", "ꟍ", "M", "ꟛ", "x", "H", "B">>,
   <<"U+D803", "U+DD70", "x", "x", "m", "x", "x", "h", "b">>,
   <<"꟏", "ꟓ", "ꟕ", "x", "M", "x", "x", "H", "B">>,
   <<"U+D81B", "U+DEBB", "U+D81B", "U+DED3", "m", "s", "h", "ꟓ", "ƛ", "x">>,
   <<"ƛ", "U+0264", "ᲊ", "ꟍ", "ꟛ", "꟏", "ꟓ", "ꟕ", "U+D803", "U+DD85">>}

EngineSheets ==
  {<<SheetRow(n, <<"P">>, <<"M", "H", "B">>, <<>>, <<"1", "0", ".", "1", "0">>, <<>>, <<>>, <<"5">>)>> :
     n \in EngineNames}

\* Sheets of the session: one complete row, the same row twice, and two
\* different complete rows
SessionSheets ==
  {<<SheetRow(<<"A", "1">>, <<"P">>, <<"M", "H", "B">>, <<>>, <<"1", "0", ".", "1", "0">>, <<>>, <<>>, <<"5">>)>>,
   <<SheetRow(<<"A", "1">>, <<"P">>, <<"M", "H", "B">>, <<>>, <<"1", "0", ".", "1", "0">>, <<>>, <<>>, <<"5">>),
     SheetRow(<<"A", "1">>, <<"P">>, <<"M", "H", "B">>, <<>>, <<"1", "0", ".", "1", "0">>, <<>>, <<>>, <<"5">>)>>,
   <<SheetRow(<<"A", "1">>, <<"P">>, <<"M", "H", "B">>, <<>>, <<"1", "0", ".", "1", "0">>, <<>>, <<>>, <<"5">>),
     SheetRow(<<"A", "1">>, <<"P">>, <<"M", "H", "B">>, <<"2">>, <<"1", "0", ".", "1", "0">>, <<>>, <<>>, <<"9", " ", "(", "E", "A", ")">>)>>}

\* Base months March 2024, February 2024, February 2023 and January 2024,
\* on hosts west of, at and east of Greenwich
Hosts ==
  {[baseYear |-> b[1], baseMonth |-> b[2], utcOffset |-> o, fromGiven |-> TRUE,
    unicode |-> DefaultHost.unicode] :
     b \in {<<2024, 2>>, <<2024, 1>>, <<2023, 1>>, <<2024, 0>>},
     o \in {0 - 300, 0, 480}}

\* The host of an import without options.dateRangeFrom: its base year and
\* month are today's
NoOptionsHost == [DefaultHost EXCEPT !.fromGiven = FALSE]

\* What an import call is given: every sheet on the default host, the
\* dated sheets on every host, the names with the newer letters and some of
\* the other names on every engine, the files that give no sheet, and calls
\* without options.dateRangeFrom on a clock that stands and one that runs.
ImportInputs ==
  {[workbook |-> "sheet", jsonData |-> sheet, host |-> DefaultHost,
    clock |-> SteadyClock, rng |-> DefaultRng] : sheet \in Sheets \cup ManyErrorSheets \cup FractionSheets \cup DaySheets \cup CaseSheets
                \cup CategorySheets \cup HalfwaySheets
                \cup BlankCharSheets \cup CurrencySheets}
  \cup
  {[workbook |-> "sheet", jsonData |-> sheet, host |-> h,
    clock |-> SteadyClock, rng |-> DefaultRng] : sheet \in DatedSheets, h \in Hosts}
  \cup
  {[workbook |-> "sheet", jsonData |-> sheet,
    host |-> [DefaultHost EXCEPT !.unicode = v],
    clock |-> SteadyClock, rng |-> DefaultRng] :
     sheet \in EngineSheets \cup CategorySheets, v \in UnicodeVersions}
  \cup
  {[workbook |-> w, jsonData |-> <<>>, host |-> DefaultHost,
    clock |-> SteadyClock, rng |-> DefaultRng] : w \in Workbooks \ {"sheet"}}
  \cup
  {[workbook |-> "sheet", jsonData |-> sheet, host |-> NoOptionsHost,
    clock |-> c, rng |-> DefaultRng] :
     sheet \in {<<>>} \cup SessionSheets, c \in {SteadyClock, TickingClock}}
  \cup
  {[workbook |-> "no sheets", jsonData |-> <<>>, host |-> NoOptionsHost,
    clock |-> TickingClock, rng |-> DefaultRng]}

(***************************************************************************)
(* Specification of the spreadsheet import                                 *)
(***************************************************************************)
InitImport ==
  /\ store = "local"
  /\ user = TRUE
  /\ entries = PriorEntries(MaxPrior)
  /\ remote = <<>>
  /\ isImporting = FALSE
  /\ importProgress = 0
  /\ error = "null"
  /\ calls = [c \in Callers |-> IdleCall]
  /\ commitOrder = <<>>
  /\ \E input \in ImportInputs :
       /\ workbook = input.workbook
       /\ jsonData = input.jsonData
       /\ host = input.host
       /\ clock = input.clock
       /\ rng = input.rng
  /\ importPc = "reading"
  /\ importResult = NoResult
  /\ removedIds = {}
  /\ pastImports = <<>>
  /\ file = NoFile
  /\ isProcessingFile = FALSE
  /\ toast = "none"
  /\ dateRange = NoRange
  /\ importCalendarOpen = FALSE
  /\ fileChooserOpen = FALSE
  /\ selectedMonth = Today
  /\ monthEntries = <<>>
  /\ fetch = IdleFetch
  /\ cloudOp = IdleOp
  /\ localStorage = Item(entries)
  /\ idb = [works |-> TRUE, item |-> NoItem, atStart |-> NoItem]
  /\ idbQueue = <<>>
  /\ migrate = SettledMigration
  /\ hydrate = SettledHydration
  /\ storageError = "null"
  /\ added = 0

NextImport == ImportFromExcel

SpecImport == InitImport /\ [][NextImport]_vars

(***************************************************************************)
(* Properties of the row mapper                                            *)
(***************************************************************************)
RowIndexes == 0..(Len(jsonData) - 1)

RowAt(i) == jsonData[i + 1]

\* Positions in data of the entries made from data row i
EntriesOfRow(i) ==
  {k \in 1..Len(importResult.data) : importResult.data[k].id.index = i}

\* Positions in the full error list of the errors that name row i + 2
ErrorsOfRow(i) ==
  {k \in 1..Len(importResult.allErrors) : importResult.allErrors[k].row = i + 2}

RequiredFields == {"name", "product", "branch"}

FieldAliases(field) ==
  CASE field = "name" -> NameAliases
    [] field = "product" -> ProductAliases
    [] field = "branch" -> BranchAliases

MissingText(field) ==
  CASE field = "name" -> "Missing name"
    [] field = "product" -> "Missing product"
    [] field = "branch" -> "Missing branch"

MissingFields(row) ==
  {field \in RequiredFields : TextField(row, FieldAliases(field)) = <<>>}

DayResolves(row) == ~ParseDayNumber(DayValue(row)).isNull

AmountCell(row) == ParseLooseNumber(RawField(row, AmountAliases, 0))

\* amount is round2(x) for x = price * qty * (1 - discountPercent / 100),
\* the numbers being the program's doubles and round2(x) the nearest
\* hundredth as the program takes it, Math.round(x * 100) / 100
IsRound2OfProduct(amount, price, qty, discountPercent) ==
  LET x == DoubleTimes(
             DoubleTimes(DoubleOfRatio(price.num, price.den),
                         DoubleOfRatio(qty.num, qty.den)),
             DoubleMinus(DoubleOfRatio(1, 1),
                         DoubleOver(DoubleOfRatio(discountPercent.num,
                                                  discountPercent.den), 100)))
      hundredths == MathRoundOfDouble(DoubleTimes(x, DoubleOfRatio(100, 1)))
  IN /\ ~amount.nan
     /\ amount = NumberValue(hundredths, 100)

\* C9: every row whose name, product and branch are all non-empty and
\* whose date cell resolves to a day produces exactly one entry and no error;
\* the entry's amount is the parsed Amount cell when that is finite and
\* non-zero, and otherwise price * qty * (1 - discountPercent / 100) of the
\* entry's sanitised values rounded to two decimals.
C9_CompleteRowGivesOneEntry ==
  importPc = "resolved" =>
    \A i \in RowIndexes :
      (MissingFields(RowAt(i)) = {} /\ DayResolves(RowAt(i))) =>
        /\ Cardinality(EntriesOfRow(i)) = 1
        /\ ErrorsOfRow(i) = {}
        /\ \A k \in EntriesOfRow(i) :
             LET entry == importResult.data[k]
                 cell == AmountCell(RowAt(i))
             IN IF ~cell.nan /\ cell.num # 0
                  THEN entry.amount = cell
                  ELSE IsRound2OfProduct(entry.amount, entry.price, entry.qty,
                                         entry.discountPercent)

\* A complete row without a usable Amount cell, with a price, a fractional
\* quantity and a discount, has become an entry with a computed amount.
C9_Witness ==
  /\ importPc = "resolved"
  /\ \E i \in RowIndexes :
       /\ MissingFields(RowAt(i)) = {}
       /\ DayResolves(RowAt(i))
       /\ AmountCell(RowAt(i)).num = 0
       /\ \E k \in EntriesOfRow(i) :
            /\ importResult.data[k].qty = NumberValue(3, 1)
            /\ importResult.data[k].discountPercent = NumberValue(50, 1)
            /\ importResult.data[k].amount = NumberValue(1800, 1)

\* C10: every row in which at least one but not all of name, product and
\* branch is empty produces no entry and exactly one error per missing field,
\* each naming row number i + 2 for data row index i.
C10_IncompleteRowGivesErrors ==
  importPc = "resolved" =>
    \A i \in RowIndexes :
      LET missing == MissingFields(RowAt(i))
      IN (missing # {} /\ missing # RequiredFields) =>
           /\ EntriesOfRow(i) = {}
           /\ Cardinality(ErrorsOfRow(i)) = Cardinality(missing)
           /\ \A field \in missing :
                \E k \in ErrorsOfRow(i) :
                  importResult.allErrors[k].text = MissingText(field)

\* C11: a row whose name, product and branch are all empty produces neither
\* an entry nor an error, whatever its other cells (the date cell included)
\* hold.
C11_BlankRowIsSilent ==
  importPc = "resolved" =>
    \A i \in RowIndexes :
      MissingFields(RowAt(i)) = RequiredFields =>
        EntriesOfRow(i) = {} /\ ErrorsOfRow(i) = {}

\* The date cell as the mapper reads it, trimmed; empty when the sheet has no
\* date column
DateText(row) ==
  IF DayValue(row).t = "undefined" THEN <<>> ELSE Trim(StringOf(DayValue(row)))

\* C12: a row whose date cell is non-empty (after trimming) and does not
\* resolve to a day in 1..31 produces no entry and exactly one error, which
\* is the invalid-date error for row number index + 2 and quotes the cell.
C12_UnresolvedDateGivesOneError ==
  importPc = "resolved" =>
    \A i \in RowIndexes :
      (DateText(RowAt(i)) # <<>> /\ ~DayResolves(RowAt(i))) =>
        /\ EntriesOfRow(i) = {}
        /\ Cardinality(ErrorsOfRow(i)) = 1
        /\ \A k \in ErrorsOfRow(i) :
             /\ importResult.allErrors[k].text = "Invalid Date value"
             /\ importResult.allErrors[k].value = DateText(RowAt(i))

\* A second row with the date cell "32" and a missing name has produced the
\* invalid-date error of row 3 and nothing else.
C12_Witness ==
  /\ importPc = "resolved"
  /\ Len(jsonData) >= 2
  /\ DateText(RowAt(1)) = <<"3", "2">>
  /\ MissingFields(RowAt(1)) # {}
  /\ \E k \in 1..Len(importResult.allErrors) :
       importResult.allErrors[k] = RowError(3, "Invalid Date value", <<"3", "2">>)

\* The day after an ISO calendar date (months from 1)
NextDay(date) ==
  IF date.day < DaysInMonth(date.year, date.month - 1)
    THEN [date EXCEPT !.day = @ + 1]
  ELSE IF date.month < 12
    THEN [year |-> date.year, month |-> date.month + 1, day |-> 1]
  ELSE [year |-> date.year + 1, month |-> 1, day |-> 1]

\* The ISO calendar date (months from 1) that lies days after date
RECURSIVE PlusDays(_, _)
PlusDays(date, days) ==
  IF days = 0 THEN date ELSE PlusDays(NextDay(date), days - 1)

\* The number of digits, at most two, that the text starts with
LeadingDigits(text) ==
  IF Len(text) >= 1 /\ text[1] \in DigitChars
    THEN IF Len(text) >= 2 /\ text[2] \in DigitChars THEN 2 ELSE 1
    ELSE 0

\* C22: parseDayNumber gives, for every date cell, null or an integer in
\* 1..31: the value of the leading run of one or two digits of the trimmed
\* text when that value is in 1..31, whatever follows the digits, and null
\* for an absent or empty cell, a text without a leading digit and a value
\* outside 1..31.
C22_DayIsLeadingDigitsOrNull ==
  \A i \in 1..Len(jsonData) :
    LET parsed == ParseDayNumber(DayValue(jsonData[i]))
        text == DateText(jsonData[i])
        value == DigitsValue(SubSeq(text, 1, LeadingDigits(text)), 0)
    IN /\ parsed.isNull \in BOOLEAN
       /\ ~parsed.isNull => parsed.day \in 1..31
       /\ (LeadingDigits(text) > 0 /\ value \in 1..31) =>
            (~parsed.isNull /\ parsed.day = value)
       /\ (LeadingDigits(text) = 0 \/ value \notin 1..31) => parsed.isNull

\* The import has mapped a row whose date cell is "9 (EA)" to the ninth
C22_Witness ==
  /\ importPc = "resolved"
  /\ \E i \in RowIndexes :
       /\ DateText(RowAt(i)) = <<"9", " ", "(", "E", "A", ")">>
       /\ ParseDayNumber(DayValue(RowAt(i))) = [isNull |-> FALSE, day |-> 9]
       /\ \E k \in EntriesOfRow(i) : importResult.data[k].date.day = 9

\* C13: on every host, the date of the entry made from a row with resolved
\* day d is the first day of the base month plus d - 1 days; base month March
\* 2024 with day 5 gives 2024-03-05.
C13_EntryDateIsBaseMonthDay ==
  importPc = "resolved" =>
    \A i \in RowIndexes :
      \A k \in EntriesOfRow(i) :
        importResult.data[k].date =
          PlusDays([year |-> host.baseYear, month |-> host.baseMonth + 1, day |-> 1],
                   ParseDayNumber(DayValue(RowAt(i))).day - 1)

\* C14: the result of importFromExcel has success = true if and only if its
\* data list holds at least one entry.
C14_SuccessIffData ==
  importPc = "resolved" => (importResult.success <=> Len(importResult.data) >= 1)

\* A sheet whose rows gave an entry and an error has resolved with success.
C14_Witness ==
  /\ importPc = "resolved"
  /\ importResult.success
  /\ Len(importResult.data) >= 1
  /\ Len(importResult.allErrors) >= 1

\* C15: the errors list holds at most 10 messages and is the first 10, in
\* row order, of all row errors; rows after the one that gave the 10th error
\* are still processed: their errors are in the full list and their complete
\* rows have their entries in data.
C15_ErrorsAreFirstTen ==
  (importPc = "resolved" /\ workbook = "sheet") =>
    LET all == importResult.allErrors
    IN /\ Len(importResult.errors) <= 10
       /\ importResult.errors = SubSeq(all, 1, Min(10, Len(all)))
       /\ \A j, k \in 1..Len(all) : j < k => all[j].row <= all[k].row
       /\ \A i \in RowIndexes :
            /\ (MissingFields(RowAt(i)) = {} /\ DayResolves(RowAt(i)))
                 => EntriesOfRow(i) # {}
            /\ (DateText(RowAt(i)) # <<>> /\ ~DayResolves(RowAt(i)))
                 => ErrorsOfRow(i) # {}
            /\ (DayResolves(RowAt(i))
                  /\ MissingFields(RowAt(i)) \notin {{}, RequiredFields})
                 => Cardinality(ErrorsOfRow(i)) = Cardinality(MissingFields(RowAt(i)))

\* Twelve errors were collected in six rows, ten are returned, and the
\* complete row after them has its entry in data.
C15_Witness ==
  /\ importPc = "resolved"
  /\ Len(importResult.allErrors) > 10
  /\ Len(importResult.errors) = 10
  /\ \E k \in 1..Len(importResult.data) :
       importResult.data[k].id.index + 2 > importResult.allErrors[10].row
  /\ \E k \in 1..Len(importResult.allErrors) :
       importResult.allErrors[k].row > importResult.allErrors[10].row

\* C16: every entry produced by importFromExcel has a qty that is an integer
\* and at least 1, whatever the quantity cell holds.
C16_QtyIsPositiveInteger ==
  importPc = "resolved" =>
    \A k \in 1..Len(importResult.data) :
      LET qty == importResult.data[k].qty
      IN ~qty.nan /\ qty.den = 1 /\ qty.num >= 1

\* C17: every entry produced by importFromExcel has price >= 0 and
\* 0 <= discountPercent <= 100, whatever the price and discount cells hold.
C17_PriceAndDiscountInRange ==
  importPc = "resolved" =>
    \A k \in 1..Len(importResult.data) :
      LET price == importResult.data[k].price
          discount == importResult.data[k].discountPercent
      IN /\ ~price.nan /\ price.num >= 0
         /\ ~discount.nan
         /\ discount.num >= 0
         /\ discount.num <= 100 * discount.den

\* C18: importFromExcel never rejects: its promise is pending or resolved,
\* and when the file cannot be decoded or the workbook has no sheet it
\* resolves with success = false, no data and a non-empty errors list.
C18_NeverRejects ==
  /\ importPc \in {"idle", "reading", "resolved"}
  /\ (importPc = "resolved" /\ workbook # "sheet") =>
       /\ ~importResult.success
       /\ importResult.data = <<>>
       /\ importResult.errors # <<>>

\* An unreadable file has resolved with one error and no data.
C18_Witness ==
  /\ importPc = "resolved"
  /\ workbook = "unreadable"
  /\ Len(importResult.errors) = 1
  /\ importResult.data = <<>>

(***************************************************************************)
(* Entry ids: manual adds, imports and removals on the local store         *)
(***************************************************************************)
MaxReads == 6
MaxTime == 2

\* The clocks of a session: the next MaxReads readings, which go from 1 to
\* MaxTime after the third reading or stay at 1
ClockSteps == {3, MaxReads}

ClockRuns ==
  {[run |-> [k \in 1..MaxReads |-> IF k <= st THEN 1 ELSE MaxTime], reads |-> 0] :
     st \in ClockSteps}

\* The entry AddSalesEntryForm.onSubmit builds from the form's data: its id
\* is `entry-${Date.now()}`, its createdAt a later reading of the clock.
SubmittedEntry ==
  [id |-> [prefix |-> "entry", time |-> ClockRead(clock, 1), index |-> 0,
           random |-> 0],
   date |-> [year |-> 2024, month |-> 3, day |-> 5],
   upc |-> <<>>,
   name |-> <<"A", "1">>,
   description |-> <<"P">>,
   qty |-> NumberValue(1, 1),
   category |-> <<>>,
   price |-> NumberValue(10, 1),
   discountPercent |-> NumberValue(0, 1),
   amount |-> NumberValue(10, 1),
   branch |-> <<"M", "H", "B">>,
   createdAt |-> ClockRead(clock, 2)]

\* addEntry: entries: [entry, ...state.entries]
AddEntry(entry, prev) == <<entry>> \o prev

\* removeEntry: entries.filter(e => e.id !== id)
RemoveEntryById(id, prev) == SelectSeq(prev, LAMBDA e : e.id # id)

\* onSubmit and the store's addEntry; form.reset reads the clock once more.
SubmitEntry ==
  /\ clock.reads + 3 <= Len(clock.run)
  /\ entries' = AddEntry(SubmittedEntry, entries)
  /\ localStorage' = Item(AddEntry(SubmittedEntry, entries))
  /\ clock' = [clock EXCEPT !.reads = @ + 3]
  /\ toast' = "Entry saved"
  /\ UNCHANGED <<store, user, remote, isImporting, importProgress, error,
                 calls, commitOrder>>
  /\ UNCHANGED <<workbook, jsonData, importPc, importResult, host, rng, idVars,
                 file, isProcessingFile, dateRange, importCalendarOpen,
                 fileChooserOpen, pageVars, cloudVars, idbVars>>

\* handleFileChange's size guard: file.size > 10 * 1024 * 1024
MaxFileSize == 10 * 1024 * 1024

FileTooLargeOffByOne(size) == size > MaxFileSize + 1
FileTooLarge(size) == size > MaxFileSize

\* Sizes of the files of the session, in bytes, around the guard's limit
FileSizes == {1, MaxFileSize, MaxFileSize + 1}

\* The files of the change events: the one-row sheet and the sheet with the
\* same row twice in a small file, and the one-row sheet at every size
SessionFiles ==
  {[size |-> 1, sheet |-> sheet, chosen |-> TRUE] :
     sheet \in {sh \in SessionSheets : Len(sh) = 1 \/ sh[1] = sh[2]}}
  \cup {[size |-> s, sheet |-> sheet, chosen |-> TRUE] :
          s \in FileSizes, sheet \in {sh \in SessionSheets : Len(sh) = 1}}

\* The ranges the calendars hand to onDateRangeChange: nothing selected, a
\* start date, and a range of one day
DateRanges ==
  {NoRange, [from |-> Today, to |-> NoDate], [from |-> Today, to |-> Today]}

\* a is an earlier calendar day than b
DayBefore(a, b) ==
  \/ a.year < b.year
  \/ a.year = b.year /\ a.month < b.month
  \/ a.year = b.year /\ a.month = b.month /\ a.day < b.day

\* new Date(entry.date): the UTC midnight of the entry's day, as a local
\* calendar day (months from 0); west of Greenwich that is the day before.
LocalDayOf(date, utcOffset) ==
  LET day == [year |-> date.year, month |-> date.month - 1, day |-> date.day]
  IN  IF utcOffset < 0 THEN PreviousDay(day) ELSE day

\* getEntriesForMonth: entryDate.getMonth() === month &&
\* entryDate.getFullYear() === year
EntriesForMonth(list, date, utcOffset) ==
  SelectSeq(list, LAMBDA e :
    /\ LocalDayOf(e.date, utcOffset).month = date.month
    /\ LocalDayOf(e.date, utcOffset).year = date.year)

\* new Date(e.date) >= dateRange.from, from being a local midnight
NotBefore(date, from, utcOffset) == ~DayBefore(LocalDayOf(date, utcOffset), from)

\* new Date(e.date) <= dateRange.to, to being a local midnight
NotAfter(date, to, utcOffset) ==
  IF utcOffset = 0 THEN ~DayBefore(to, LocalDayOf(date, utcOffset))
  ELSE DayBefore(LocalDayOf(date, utcOffset), to)

\* What the useMemo of monthEntries computes: the entries of the month
\* within range
MonthEntries(list, month, range, utcOffset) ==
  SelectSeq(EntriesForMonth(list, month, utcOffset), LAMBDA e :
    /\ range.from # NoDate => NotBefore(e.date, range.from, utcOffset)
    /\ range.to # NoDate => NotAfter(e.date, range.to, utcOffset))

\* setDateRange, called by the onSelect of either calendar with a new
\* object { from, to }.  dateRange is a dependency of the useMemo of
\* monthEntries, so the render that follows computes the list again, from
\* the entries of the store at that time.
OnDateRangeChange(range) ==
  /\ dateRange' = range
  /\ monthEntries' = MonthEntries(entries, selectedMonth, range, host.utcOffset)
  /\ UNCHANGED <<storeVars, importVars, idVars, file, isProcessingFile, toast,
                 importCalendarOpen, fileChooserOpen, selectedMonth,
                 cloudVars, persistVars>>

\* The months the month picker of the page header hands to setSelectedMonth
SelectableMonths == {Today, [year |-> Today.year, month |-> Today.month - 1, day |-> 5]}

\* setSelectedMonth of the local store, with the middleware's write of the
\* state.  selectedMonth is a dependency of the useMemo of monthEntries, and
\* the picker hands over a new Date, so the list is computed again.
SetSelectedMonth(month) ==
  /\ store = "local"
  /\ selectedMonth' = month
  /\ monthEntries' = MonthEntries(entries, month, dateRange, host.utcOffset)
  /\ localStorage' = Item(entries)
  /\ UNCHANGED <<storeVars, importVars, idVars, file, isProcessingFile, toast,
                 dateRange, importCalendarOpen, fileChooserOpen, cloudVars,
                 idbVars>>
\* handleImportClick; the Import button is disabled while isImporting
\* (externalIsImporting || isProcessingFile)
HandleImportClick ==
  /\ ~(isImporting \/ isProcessingFile)
  /\ importCalendarOpen' = TRUE
  /\ UNCHANGED <<storeVars, importVars, idVars, file, isProcessingFile, toast,
                 dateRange, fileChooserOpen, pageVars, cloudVars, persistVars>>

\* The popover's Cancel button: setImportCalendarOpen(false)
CancelImport ==
  /\ importCalendarOpen
  /\ importCalendarOpen' = FALSE
  /\ UNCHANGED <<storeVars, importVars, idVars, file, isProcessingFile, toast,
                 dateRange, fileChooserOpen, pageVars, cloudVars, persistVars>>

\* handleDateSelectAndImport.  Its button is in the open popover and is
\* disabled without dateRange.from, so the handler's own test of dateRange.from
\* never fails when the button calls it.
HandleDateSelectAndImport ==
  /\ importCalendarOpen
  /\ dateRange.from # NoDate
  /\ IF dateRange.from = NoDate
       THEN /\ toast' = "Please select a date"
            /\ UNCHANGED <<importCalendarOpen, fileChooserOpen>>
       ELSE /\ importCalendarOpen' = FALSE
            /\ fileChooserOpen' = TRUE
            /\ UNCHANGED toast
  /\ UNCHANGED <<storeVars, importVars, idVars, file, isProcessingFile,
                 dateRange, pageVars, cloudVars, persistVars>>

\* baseDate = options?.dateRangeFrom || new Date(): the year and month the
\* import takes its days in
BaseOf(from) ==
  IF from # NoDate
    THEN [host EXCEPT !.baseYear = from.year, !.baseMonth = from.month,
                      !.fromGiven = TRUE]
    ELSE [host EXCEPT !.baseYear = Today.year, !.baseMonth = Today.month,
                      !.fromGiven = FALSE]

\* The chooser closes with a file or without one, and handleFileChange runs
\* up to the await of importFromExcel: nothing happens without a file, a file
\* over the limit gets the 'File too large' toast and the handler returns,
\* any other file is handed to importFromExcel after
\* setIsProcessingFile(true).
ChooseFile(f) ==
  /\ fileChooserOpen
  /\ importPc \in {"idle", "stored"}
  /\ ~isProcessingFile
  /\ fileChooserOpen' = FALSE
  /\ file' = f
  /\ IF ~f.chosen
       THEN UNCHANGED <<workbook, jsonData, importPc, host, isProcessingFile, toast>>
       ELSE IF FileTooLarge(f.size)
         THEN /\ toast' = "File too large"
              /\ UNCHANGED <<workbook, jsonData, importPc, host, isProcessingFile>>
         ELSE /\ clock.reads + BaseDateReads(BaseOf(dateRange.from))
                  + 2 * Len(f.sheet) <= Len(clock.run)
              /\ isProcessingFile' = TRUE
              /\ workbook' = "sheet"
              /\ jsonData' = f.sheet
              /\ host' = BaseOf(dateRange.from)
              /\ importPc' = "reading"
              /\ UNCHANGED toast
  /\ UNCHANGED <<importResult, clock, rng, storeVars, idVars, dateRange,
                 importCalendarOpen, pageVars, cloudVars, persistVars>>

\* handleFileChange after importFromExcel has settled: onImport hands the
\* data to addEntriesBatch, which commits it as one batch (the sheets of the
\* session are shorter than BATCH_SIZE); then the toast, and the finally
\* block's setIsProcessingFile(false) and its emptying of the file input.
\* The catch block's 'Import error' toast needs a rejection of
\* importFromExcel or of onImport.
OnImport ==
  /\ importPc \in {"resolved", "rejected"}
  /\ Len(importResult.data) <= BATCH_SIZE
  /\ IF importPc = "rejected"
       THEN /\ toast' = "Import error"
            /\ UNCHANGED <<entries, isImporting, importProgress, localStorage>>
       ELSE IF importResult.success /\ Len(importResult.data) > 0
       THEN /\ entries' = LocalPrepend(BatchOf(importResult.data, 0), entries)
            /\ localStorage' =
                 Item(LocalPrepend(BatchOf(importResult.data, 0), entries))
            /\ isImporting' = FALSE
            /\ importProgress' = 100
            /\ toast' = "Import successful"
       ELSE /\ toast' = "Import failed"
            /\ UNCHANGED <<entries, isImporting, importProgress, localStorage>>
  /\ isProcessingFile' = FALSE
  /\ file' = NoFile
  /\ importPc' = "stored"
  /\ pastImports' = Append(pastImports,
                           [jsonData |-> jsonData, host |-> host,
                            data |-> importResult.data])
  /\ UNCHANGED <<store, user, remote, error, calls, commitOrder>>
  /\ UNCHANGED <<workbook, jsonData, importResult, host, clock, rng,
                 removedIds, dateRange, importCalendarOpen,
                 fileChooserOpen, pageVars, cloudVars, idbVars>>

\* handleExport, on the entries prop: the memoized monthEntries.  With rows
\* to export the file's name takes today's date from a reading of the clock.
HandleExport ==
  /\ IF Len(monthEntries) = 0
       THEN /\ toast' = "No data to export"
            /\ UNCHANGED clock
       ELSE /\ clock.reads + 1 <= Len(clock.run)
            /\ clock' = [clock EXCEPT !.reads = @ + 1]
            /\ toast' = "Export successful"
  /\ UNCHANGED <<storeVars, workbook, jsonData, importPc, importResult, host,
                 rng, idVars, file, isProcessingFile, dateRange,
                 importCalendarOpen, fileChooserOpen, pageVars, cloudVars,
                 persistVars>>

\* handleDelete and the store's removeEntry, for the k-th entry that the
\* table shows.  The table shows the memoized monthEntries, which a change of
\* the store's entries does not compute again: a row can be of an entry that
\* is no longer in the store, and an entry of the store can be without row.
RemoveEntry(k) ==
  LET shown == monthEntries
  IN  /\ k \in 1..Len(shown)
      /\ entries' = RemoveEntryById(shown[k].id, entries)
      /\ localStorage' = Item(RemoveEntryById(shown[k].id, entries))
      /\ removedIds' = removedIds \cup {shown[k].id}
      /\ toast' = "Entry deleted"
      /\ UNCHANGED <<store, user, remote, isImporting, importProgress, error,
                     calls, commitOrder, importVars, pastImports, file,
                     isProcessingFile, dateRange, importCalendarOpen,
                     fileChooserOpen, pageVars, cloudVars, idbVars>>

\* handleClearAll and the store's clearAllEntries; the Clear All button is
\* disabled while the memoized monthEntries is empty
ClearAllEntries ==
  /\ Len(monthEntries) > 0
  /\ entries' = <<>>
  /\ localStorage' = Item(<<>>)
  /\ removedIds' = removedIds \cup {entries[k].id : k \in 1..Len(entries)}
  /\ toast' = "All entries cleared"
  /\ UNCHANGED <<store, user, remote, isImporting, importProgress, error,
                 calls, commitOrder, importVars, pastImports, file,
                 isProcessingFile, dateRange, importCalendarOpen,
                 fileChooserOpen, pageVars, cloudVars, idbVars>>

InitIds ==
  /\ store = "local"
  /\ user = TRUE
  /\ entries = <<>>
  /\ remote = <<>>
  /\ isImporting = FALSE
  /\ importProgress = 0
  /\ error = "null"
  /\ calls = [c \in Callers |-> IdleCall]
  /\ commitOrder = <<>>
  /\ workbook = "sheet"
  /\ jsonData = <<>>
  /\ importPc = "idle"
  /\ importResult = NoResult
  /\ host = DefaultHost  \* the names of the session's sheets are too short for toUpperCase to run
  /\ clock \in ClockRuns
  /\ rng = DefaultRng
  /\ removedIds = {}
  /\ pastImports = <<>>
  /\ file = NoFile
  /\ isProcessingFile = FALSE
  /\ toast = "none"
  /\ dateRange = NoRange
  /\ importCalendarOpen = FALSE
  /\ fileChooserOpen = FALSE
  /\ selectedMonth = Today
  /\ monthEntries = <<>>
  /\ fetch = IdleFetch
  /\ cloudOp = IdleOp
  /\ localStorage \in {NoItem, Item(entries)}  \* with or without the write that follows rehydration
  /\ idb = [works |-> TRUE, item |-> NoItem, atStart |-> NoItem]
  /\ idbQueue = <<>>
  /\ migrate = SettledMigration
  /\ hydrate = SettledHydration
  /\ storageError = "null"
  /\ added = 0

NextIds ==
  \/ SubmitEntry
  \/ \E range \in DateRanges : OnDateRangeChange(range)
  \/ \E month \in SelectableMonths : SetSelectedMonth(month)
  \/ HandleImportClick
  \/ CancelImport
  \/ HandleDateSelectAndImport
  \/ \E f \in SessionFiles \cup {NoFile} : ChooseFile(f)
  \/ ImportFromExcel
  \/ OnImport
  \/ HandleExport
  \/ \E k \in 1..MaxReads : RemoveEntry(k)
  \/ ClearAllEntries

SpecIds == InitIds /\ [][NextIds]_vars

\* C19: after any sequence of manual adds, imports and removals no two
\* entries of the store share an id, and no entry of the store has the id of
\* an entry that was removed before.
C19_IdsAreUniqueAndNeverReused ==
  /\ \A j, k \in 1..Len(entries) : j # k => entries[j].id # entries[k].id
  /\ \A k \in 1..Len(entries) : entries[k].id \notin removedIds

\* Two entries agree in every field but id and createdAt and differ in both
DifferOnlyInIdAndCreatedAt(first, second) ==
  /\ [first EXCEPT !.id = 0, !.createdAt = 0]
       = [second EXCEPT !.id = 0, !.createdAt = 0]
  /\ first.id # second.id
  /\ first.createdAt # second.createdAt

\* C20: two runs of the row mapper on the same raw row with the same base
\* month and year (the same sheet imported twice, or a row that occurs twice
\* in one sheet) give entries that agree in every field but id and createdAt
\* and that differ in both id and createdAt.
C20_RerunDiffersOnlyInIdAndCreatedAt ==
  /\ \A a, b \in 1..Len(pastImports) :
       (a < b /\ pastImports[a].jsonData = pastImports[b].jsonData
              /\ pastImports[a].host.baseYear = pastImports[b].host.baseYear
              /\ pastImports[a].host.baseMonth = pastImports[b].host.baseMonth) =>
         /\ Len(pastImports[a].data) = Len(pastImports[b].data)
         /\ \A k \in 1..Len(pastImports[a].data) :
              DifferOnlyInIdAndCreatedAt(pastImports[a].data[k],
                                         pastImports[b].data[k])
  /\ \A a \in 1..Len(pastImports) :
       \A j, k \in 1..Len(pastImports[a].data) :
         LET first == pastImports[a].data[j]
             second == pastImports[a].data[k]
         IN (j < k /\ pastImports[a].jsonData[first.id.index + 1]
                       = pastImports[a].jsonData[second.id.index + 1])
              => DifferOnlyInIdAndCreatedAt(first, second)

\* C21: a file larger than 10 MB is rejected with the 'File too large' toast
\* before any parsing: the change event of such a file changes no store
\* state, no import state and not the processing flag, and importFromExcel
\* and onImport never run for such a file.
C21_LargeFileIsRejectedBeforeParsing ==
  /\ [](importPc \in {"reading", "resolved"} => file.size <= MaxFileSize)
  /\ [][(file' # file /\ file'.chosen /\ file'.size > MaxFileSize) =>
         /\ toast' = "File too large"
         /\ UNCHANGED <<storeVars, importVars, idVars, isProcessingFile>>]_vars

C21_Witness ==
  /\ file.chosen
  /\ file.size > MaxFileSize
  /\ toast = "File too large"
  /\ importPc = "stored"
  /\ Len(entries) > 0

(***************************************************************************)
(* Properties of the stores, continued                                     *)
(***************************************************************************)
\* The number of entries the call has committed so far
CommittedCount(rec) ==
  IF rec.commits = <<>> THEN 0
  ELSE (Len(rec.commits) - 1) * BATCH_SIZE + Len(rec.commits[Len(rec.commits)])

\* Call c commits a batch in this step
CommitsBatch(c) == Len(calls'[c].commits) = Len(calls[c].commits) + 1

\* C23: in useSalesStore.addEntriesBatch every batch commit but the last
\* leaves the call waiting for the timer, with the store open to other
\* actions, and every later commit of the call starts from that wait; the
\* commit of the last batch clears the importing flag and settles the call
\* in the same step, without a wait in between.
C23_YieldBetweenBatchesOnly ==
  [][store = "local" =>
       \A c \in Callers :
         (CommitsBatch(c) /\ calls'[c].cb # "throws") =>
           /\ calls[c].pc \in {"idle", "yield"}
           /\ IF CommittedCount(calls'[c]) < calls'[c].n
                THEN calls'[c].pc = "yield"
                ELSE /\ calls'[c].pc = "resolved"
                     /\ ~isImporting'
                     /\ importProgress' = 100]_storeVars

\* A call of three batches has resolved, and the other call committed a
\* batch between its first and its second commit.
C23_Witness ==
  /\ store = "local"
  /\ calls[1].pc = "resolved"
  /\ Len(calls[1].commits) = 3
  /\ Len(commitOrder) >= 3
  /\ commitOrder[1] = 1 /\ commitOrder[2] = 2 /\ commitOrder[3] = 1

\* C27: a successful addEntriesBatch(E) on the store content S leaves what
\* addEntries(E) leaves, E in source order followed by S, also when E spans
\* more than one batch.  The call is the only call of the store made.
C27_BatchEqualsAddEntries ==
  (calls[1].pc = "resolved" /\ calls[2].pc = "idle" /\ added = 0) =>
    entries = AddEntries(NewEntries(1, calls[1].n), PriorEntries(MaxPrior))

\* C29: every addEntriesBatch call that has set isImporting clears it
\* again, on success, when a commit fails and when onProgress throws: once
\* every call made has settled, isImporting is false (setImporting not
\* having been called).
C29_FlagClearedOnceSettled ==
  ((\A c \in Callers : ~InFlight(c)) /\ added = 0) => ~isImporting

(***************************************************************************)
(* useCloudSalesStore: fetchEntries next to addEntriesBatch                *)
(***************************************************************************)
\* What the awaited select can answer: the rows, or a fetchError that is an
\* Error instance or a plain error object
FetchAnswers == {"ok", "error instance", "error object"}

\* The largest integer that stands for a row
MaxRowId == IdBase(Cardinality(Callers) + 1)

\* .order('date', { ascending: false }): the records' dates ascend with the
\* integers that stand for them, so the answer is the table's rows from the
\* largest integer to the smallest.
OrderByDateDescending(rows) ==
  LET held == Range(rows)
  IN  SelectSeq([k \in 1..MaxRowId |-> MaxRowId + 1 - k], LAMBDA r : r \in held)

\* err instanceof Error ? err.message : 'Failed to fetch entries'
FetchErrorMessage(answer) ==
  IF answer = "error instance" THEN "fetch failed" ELSE "Failed to fetch entries"

\* fetchEntries (on mount, on a change of the user, or as refetch) up to the
\* await of the select
FetchEntries ==
  /\ store = "cloud"
  /\ fetch.pc = "idle"
  /\ IF ~user
       THEN /\ entries' = <<>>
            /\ fetch' = IdleFetch
       ELSE /\ fetch' = [pc |-> "await", data |-> <<>>, loading |-> TRUE,
                         failed |-> FALSE]
            /\ UNCHANGED entries
  /\ UNCHANGED <<store, user, remote, isImporting, importProgress, error,
                 calls, commitOrder, cloudOp, importVars, idVars, uiVars, persistVars>>

\* The remote table serves the select: it answers with the rows it holds at
\* that moment, or with an error.
FetchServed(answer) ==
  /\ store = "cloud"
  /\ fetch.pc = "await"
  /\ fetch' = [fetch EXCEPT
                 !.pc = IF answer = "ok" THEN "served" ELSE answer,
                 !.data = IF answer = "ok" THEN OrderByDateDescending(remote)
                          ELSE <<>>]
  /\ UNCHANGED <<storeVars, cloudOp, importVars, idVars, uiVars, persistVars>>

\* The awaited select settles: setEntries(mappedEntries) and setError(null),
\* or the catch block's setError; then the finally block's setLoading(false).
FetchSettles ==
  /\ store = "cloud"
  /\ fetch.pc \in FetchAnswers \cup {"served"}
  /\ IF fetch.pc = "served"
       THEN /\ entries' = fetch.data
            /\ error' = "null"
            /\ fetch' = IdleFetch
       ELSE /\ error' = FetchErrorMessage(fetch.pc)
            /\ fetch' = [IdleFetch EXCEPT !.failed = TRUE]
            /\ UNCHANGED entries
  /\ UNCHANGED <<store, user, remote, isImporting, importProgress, calls,
                 commitOrder, cloudOp, importVars, idVars, uiVars, persistVars>>

\* The row that the k-th addEntry call inserts: dated after the rows the
\* table holds at the start and before the imported ones
CloudAddedEntry(k) == MaxPrior + k

\* The ids removeEntry is called with: a row the table holds at the start and
\* the first row of an import
CloudRemoveIds == {1, IdBase(1) + 1}

\* Input lengths of the import next to the other calls: the early return, one
\* batch, and two batches
CloudLens == {0, 1, BATCH_SIZE + 1}

\* What the awaited insert or delete can answer: success, or an error that is
\* an Error instance or a plain error object
OpAnswers == {"ok", "error instance", "error object"}

\* The call in flight once addEntry, removeEntry or clearAllEntries has
\* reached its await
StartedOp(kind, id) ==
  [cloudOp EXCEPT !.pc = "await", !.kind = kind, !.id = id, !.made = @ + 1]

\* const addEntry = async (entry) => { if (!user) return; ...
\* await supabase.from('sales_entries').insert(...).select().single()
CloudAddEntry ==
  /\ store = "cloud"
  /\ cloudOp.pc = "idle"
  /\ cloudOp.made < MaxOps
  /\ cloudOp' = (IF ~user THEN cloudOp
                 ELSE StartedOp("addEntry", CloudAddedEntry(cloudOp.made + 1)))
  /\ UNCHANGED <<storeVars, fetch, importVars, idVars, uiVars, persistVars>>

\* const removeEntry = async (id) => { if (!user) return; ...
\* await supabase.from('sales_entries').delete().eq('id', id)
CloudRemoveEntry(id) ==
  /\ store = "cloud"
  /\ cloudOp.pc = "idle"
  /\ cloudOp.made < MaxOps
  /\ cloudOp' = (IF ~user THEN cloudOp ELSE StartedOp("removeEntry", id))
  /\ UNCHANGED <<storeVars, fetch, importVars, idVars, uiVars, persistVars>>

\* const clearAllEntries = async () => { if (!user) return; ...
\* await supabase.from('sales_entries').delete().eq('user_id', user.id)
CloudClearAllEntries ==
  /\ store = "cloud"
  /\ cloudOp.pc = "idle"
  /\ cloudOp.made < MaxOps
  /\ cloudOp' = (IF ~user THEN cloudOp ELSE StartedOp("clearAllEntries", 0))
  /\ UNCHANGED <<storeVars, fetch, importVars, idVars, uiVars, persistVars>>

\* The rows of the table after the request of the call in flight
RemoteAfter(kind, id, rows) ==
  CASE kind = "addEntry" -> Append(rows, id)
    [] kind = "removeEntry" -> SelectSeq(rows, LAMBDA r : r # id)
    [] kind = "clearAllEntries" -> <<>>

\* The remote table serves the insert or delete in flight: it changes its
\* rows and answers, or changes nothing and answers with an error.
CloudOpServed(answer) ==
  /\ store = "cloud"
  /\ cloudOp.pc = "await"
  /\ cloudOp' = [cloudOp EXCEPT !.pc = "served", !.answer = answer]
  /\ remote' = (IF answer = "ok" THEN RemoteAfter(cloudOp.kind, cloudOp.id, remote)
                ELSE remote)
  /\ UNCHANGED <<store, user, entries, isImporting, importProgress, error,
                 calls, commitOrder, fetch, importVars, idVars, uiVars,
                 persistVars>>

\* setEntries of the call in flight: (prev) => [newEntry, ...prev],
\* (prev) => prev.filter((e) => e.id !== id), or []
EntriesAfter(kind, id, prev) ==
  CASE kind = "addEntry" -> <<id>> \o prev
    [] kind = "removeEntry" -> SelectSeq(prev, LAMBDA e : e # id)
    [] kind = "clearAllEntries" -> <<>>

\* err instanceof Error ? err.message : 'Failed to add entry' (and the like)
OpErrorMessage(kind, answer) ==
  IF answer = "error instance"
    THEN (IF kind = "addEntry" THEN "insert failed" ELSE "delete failed")
    ELSE CASE kind = "addEntry" -> "Failed to add entry"
           [] kind = "removeEntry" -> "Failed to remove entry"
           [] kind = "clearAllEntries" -> "Failed to clear entries"

\* The awaited insert or delete settles: setEntries and setError(null), or the
\* catch block's setError before it rethrows.
CloudOpSettles ==
  /\ store = "cloud"
  /\ cloudOp.pc = "served"
  /\ IF cloudOp.answer = "ok"
       THEN /\ entries' = EntriesAfter(cloudOp.kind, cloudOp.id, entries)
            /\ error' = "null"
       ELSE /\ error' = OpErrorMessage(cloudOp.kind, cloudOp.answer)
            /\ UNCHANGED entries
  /\ cloudOp' = [IdleOp EXCEPT !.made = cloudOp.made]
  /\ UNCHANGED <<store, user, remote, isImporting, importProgress, calls,
                 commitOrder, fetch, importVars, idVars, uiVars, persistVars>>

\* The hook is mounted for a signed-in user whose table holds records: the
\* effect has called fetchEntries, nothing is imported yet.
InitCloud ==
  /\ store = "cloud"
  /\ user = TRUE
  /\ entries = <<>>
  /\ remote = PriorEntries(MaxPrior)
  /\ isImporting = FALSE
  /\ importProgress = 0
  /\ error = "null"
  /\ calls = [c \in Callers |-> IdleCall]
  /\ commitOrder = <<>>
  /\ workbook = "sheet"
  /\ jsonData = <<>>
  /\ importPc = "idle"
  /\ importResult = NoResult
  /\ host = DefaultHost
  /\ clock = SteadyClock
  /\ rng = DefaultRng
  /\ removedIds = {}
  /\ pastImports = <<>>
  /\ file = NoFile
  /\ isProcessingFile = FALSE
  /\ toast = "none"
  /\ dateRange = NoRange
  /\ importCalendarOpen = FALSE
  /\ fileChooserOpen = FALSE
  /\ selectedMonth = Today
  /\ monthEntries = <<>>
  /\ fetch = [pc |-> "await", data |-> <<>>, loading |-> TRUE, failed |-> FALSE]
  /\ cloudOp = IdleOp
  /\ localStorage = NoItem
  /\ idb = [works |-> TRUE, item |-> NoItem, atStart |-> NoItem]
  /\ idbQueue = <<>>
  /\ migrate = SettledMigration
  /\ hydrate = SettledHydration
  /\ storageError = "null"
  /\ added = 0

\* One import call and one addEntry, removeEntry or clearAllEntries call at a
\* time next to the fetches
NextCloud ==
  \/ FetchEntries
  \/ \E answer \in FetchAnswers : FetchServed(answer)
  \/ FetchSettles
  \/ \E n \in CloudLens, cb \in CallbackKinds : CloudAddEntriesBatch(1, n, cb)
  \/ \E answer \in InsertAnswers : CloudInsertServed(1, answer)
  \/ CloudInsertSettles(1)
  \/ CloudAddEntry
  \/ \E id \in CloudRemoveIds : CloudRemoveEntry(id)
  \/ CloudClearAllEntries
  \/ \E answer \in OpAnswers : CloudOpServed(answer)
  \/ CloudOpSettles

SpecCloud == InitCloud /\ [][NextCloud]_vars

\* No fetch and no import call is in flight
CloudQuiet ==
  /\ fetch.pc = "idle"
  /\ cloudOp.pc = "idle"
  /\ \A c \in Callers : calls[c].pc \in {"idle", "resolved", "rejected"}

\* C28: once no operation is in flight (and the last fetch did not fail) the
\* entries list holds exactly the records of the remote table, each once;
\* also after a failed addEntriesBatch that committed batches and after a
\* fetch that completed during an addEntriesBatch.
C28_EntriesMirrorRemote ==
  (CloudQuiet /\ ~fetch.failed) =>
    /\ Len(entries) = Len(remote)
    /\ Range(entries) = Range(remote)

(***************************************************************************)
(* The IndexedDB-backed useSalesStore: persist middleware and migration    *)
(***************************************************************************)
\* What the old store saved in localStorage, and what an earlier session of
\* the new store saved in IndexedDB
SavedItem == Item(PriorEntries(MaxPrior))

ExistingItem == Item(<<MaxPrior + 1>>)

\* An IndexedDB request of idb-keyval: a get or a set of the item, issued by
\* the rehydration, the migration or a write of the store
Request(op, by, item) == [op |-> op, by |-> by, item |-> item]

\* The persist middleware's setItem after a set of the store:
\* indexedDBStorage.setItem -> idbSet(name, value)
PersistWrite(list, queue) == Append(queue, Request("set", "store", Item(list)))

\* The requests are served in the order they were issued: the head of the
\* queue is served, a get reads the item, a set replaces it; when IndexedDB
\* does not work the request fails.  The outcome is handed to the issuer.
IdbServe ==
  /\ store = "indexeddb"
  /\ idbQueue # <<>>
  /\ LET request == Head(idbQueue)
         outcome == IF idb.works THEN "ok" ELSE "failed"
     IN /\ idbQueue' = Tail(idbQueue)
        /\ idb' = IF request.op = "set" /\ idb.works
                    THEN [idb EXCEPT !.item = request.item]
                    ELSE idb
        /\ hydrate' = IF request.by = "hydrate"
                        THEN [pc |-> "got " \o outcome, value |-> idb.item]
                        ELSE hydrate
        /\ migrate' = IF request.by = "migrate"
                        THEN IF request.op = "get"
                               THEN [migrate EXCEPT !.pc = "got " \o outcome,
                                                    !.existingIDB = idb.item]
                               ELSE [migrate EXCEPT !.pc = "set " \o outcome]
                        ELSE migrate
  /\ UNCHANGED <<storeVars, importVars, idVars, uiVars, cloudVars,
                 localStorage, storageError, added>>

\* The outcome of a served request is delivered as an event, and the events
\* are handled in the order of the requests: the rehydration's getItem is the
\* first request, so its outcome is handled before any of the migration's.
OutcomePending(process) == process.pc \in {"got ok", "got failed"}

\* The rehydration goes on after getItem: indexedDBStorage.getItem gives the
\* item, or the item of localStorage when idbGet threw; a stored state
\* replaces the store's entries (persist's merge of the partialized state).
\* Whether the middleware then writes the state back depends on its version.
HydrateSettles(writesBack) ==
  /\ store = "indexeddb"
  /\ hydrate.pc \in {"got ok", "got failed"}
  /\ LET value == IF hydrate.pc = "got ok" THEN hydrate.value ELSE localStorage
         merged == IF value.isNull THEN entries ELSE value.entries
     IN /\ entries' = merged
        /\ hydrate' = [pc |-> "done", value |-> value]
        /\ idbQueue' = IF writesBack THEN PersistWrite(merged, idbQueue)
                                     ELSE idbQueue
  /\ UNCHANGED <<store, user, remote, isImporting, importProgress, error,
                 calls, commitOrder, importVars, idVars, uiVars, cloudVars,
                 localStorage, idb, migrate, storageError, added>>

\* migrateFromLocalStorage after the await of idbGet: without an item in
\* IndexedDB it issues idbSet(name, localData), else it removes the item of
\* localStorage; a failed idbGet ends in the catch block.
MigrateAfterGet ==
  /\ store = "indexeddb"
  /\ migrate.pc \in {"got ok", "got failed"}
  /\ ~OutcomePending(hydrate)
  /\ IF migrate.pc = "got failed"
       THEN /\ migrate' = [migrate EXCEPT !.pc = "done"]
            /\ UNCHANGED <<idbQueue, localStorage>>
       ELSE IF migrate.existingIDB.isNull
         THEN /\ idbQueue' = Append(idbQueue,
                                   Request("set", "migrate", migrate.localData))
              /\ migrate' = [migrate EXCEPT !.pc = "setting"]
              /\ UNCHANGED localStorage
         ELSE /\ localStorage' = NoItem
              /\ migrate' = [migrate EXCEPT !.pc = "done"]
              /\ UNCHANGED idbQueue
  /\ UNCHANGED <<storeVars, importVars, idVars, uiVars, cloudVars,
                 idb, hydrate, storageError, added>>

\* migrateFromLocalStorage after the await of idbSet: it removes the item of
\* localStorage; a failed idbSet ends in the catch block.
MigrateAfterSet ==
  /\ store = "indexeddb"
  /\ migrate.pc \in {"set ok", "set failed"}
  /\ ~OutcomePending(hydrate)
  /\ localStorage' = IF migrate.pc = "set ok" THEN NoItem ELSE localStorage
  /\ migrate' = [migrate EXCEPT !.pc = "done"]
  /\ UNCHANGED <<storeVars, importVars, idVars, uiVars, cloudVars,
                 idb, idbQueue, hydrate, storageError, added>>

\* The entry of the k-th addEntry call of the session
\* addEntry of the IndexedDB-backed store, and the middleware's write of the
\* new state
IdbAddEntry ==
  /\ store = "indexeddb"
  /\ added < MaxAdded
  /\ entries' = AddEntry(AddedEntry(added + 1), entries)
  /\ storageError' = "null"
  /\ added' = added + 1
  /\ idbQueue' = PersistWrite(entries', idbQueue)
  /\ UNCHANGED <<store, user, remote, isImporting, importProgress, error,
                 calls, commitOrder, importVars, idVars, uiVars, cloudVars,
                 localStorage, idb, migrate, hydrate>>

\* addEntries of the IndexedDB-backed store
IdbAddEntries ==
  /\ store = "indexeddb"
  /\ added < MaxAdded
  /\ entries' = AddEntries(AddedList(added + 1), entries)
  /\ storageError' = "null"
  /\ added' = added + 1
  /\ idbQueue' = PersistWrite(entries', idbQueue)
  /\ UNCHANGED <<store, user, remote, isImporting, importProgress, error,
                 calls, commitOrder, importVars, idVars, uiVars, cloudVars,
                 localStorage, idb, migrate, hydrate>>

\* removeEntry of the IndexedDB-backed store, of an entry of the store;
\* storageError stays
IdbRemoveEntry(k) ==
  /\ store = "indexeddb"
  /\ added < MaxAdded
  /\ k \in 1..Len(entries)
  /\ entries' = SelectSeq(entries, LAMBDA e : e # entries[k])
  /\ added' = added + 1
  /\ idbQueue' = PersistWrite(entries', idbQueue)
  /\ UNCHANGED <<store, user, remote, isImporting, importProgress, error,
                 calls, commitOrder, importVars, idVars, uiVars, cloudVars,
                 localStorage, idb, migrate, hydrate, storageError>>

\* clearAllEntries of the IndexedDB-backed store
IdbClearAllEntries ==
  /\ store = "indexeddb"
  /\ added < MaxAdded
  /\ entries' = <<>>
  /\ storageError' = "null"
  /\ added' = added + 1
  /\ idbQueue' = PersistWrite(entries', idbQueue)
  /\ UNCHANGED <<store, user, remote, isImporting, importProgress, error,
                 calls, commitOrder, importVars, idVars, uiVars, cloudVars,
                 localStorage, idb, migrate, hydrate>>

\* The values handed to setStorageError
StorageErrors == {"null", "Storage error occurred"}

\* setStorageError of the IndexedDB-backed store
SetStorageError(err) ==
  /\ store = "indexeddb"
  /\ added < MaxAdded
  /\ storageError' = err
  /\ added' = added + 1
  /\ idbQueue' = PersistWrite(entries, idbQueue)
  /\ UNCHANGED <<storeVars, importVars, idVars, uiVars, cloudVars,
                 localStorage, idb, migrate, hydrate>>

\* setImporting of the IndexedDB-backed store
IdbSetImporting(importing) ==
  /\ store = "indexeddb"
  /\ added < MaxAdded
  /\ isImporting' = importing
  /\ importProgress' = (IF importing THEN 0 ELSE 100)
  /\ added' = added + 1
  /\ idbQueue' = PersistWrite(entries, idbQueue)
  /\ UNCHANGED <<store, user, entries, remote, error, calls, commitOrder,
                 importVars, idVars, uiVars, cloudVars, localStorage, idb,
                 migrate, hydrate, storageError>>

\* setSelectedMonth of the IndexedDB-backed store
IdbSetSelectedMonth(month) ==
  /\ store = "indexeddb"
  /\ added < MaxAdded
  /\ selectedMonth' = month
  /\ added' = added + 1
  /\ idbQueue' = PersistWrite(entries, idbQueue)
  /\ UNCHANGED <<storeVars, importVars, idVars, file, isProcessingFile, toast,
                 dateRange, importCalendarOpen, fileChooserOpen, monthEntries,
                 cloudVars, localStorage, idb, migrate, hydrate, storageError>>

\* One iteration of the batch loop of the IndexedDB-backed store's
\* addEntriesBatch with index i, up to the next await or to the end of the
\* call, with the middleware's write after every set; queue holds the
\* requests issued so far, importing and err are isImporting and
\* storageError on entry.  The set of a batch changes entries and
\* importProgress, the last set isImporting and importProgress.  A throwing
\* onProgress ends in the catch block.
IdbIteration(c, n, cb, i, rec, queue, importing, err) ==
  LET totalBatches == TotalBatches(n)
      batch == BatchOf(NewEntries(c, n), i)
      p == Progress(i, totalBatches)
      committed == [rec EXCEPT !.n = n, !.cb = cb, !.i = i,
                               !.issued = @ + 1,
                               !.commits = Append(@, batch)]
      reported == IF cb = "none" THEN committed
                  ELSE [committed EXCEPT !.reports = Append(@, p)]
      list == LocalPrepend(batch, entries)
      written == PersistWrite(list, queue)
  IN  /\ entries' = list
      /\ commitOrder' = Append(commitOrder, c)
      /\ IF cb = "throws"
           THEN /\ calls' = [calls EXCEPT ![c] =
                     [reported EXCEPT !.pc = "rejected", !.thrown = CallbackError]]
                /\ isImporting' = FALSE
                /\ importProgress' = 0
                /\ storageError' = CallbackError.message
                /\ idbQueue' = PersistWrite(list, written)
           ELSE IF YieldsAfter(i, totalBatches)
           THEN /\ calls' = [calls EXCEPT ![c] = [reported EXCEPT !.pc = "yield"]]
                /\ isImporting' = importing
                /\ importProgress' = p
                /\ storageError' = err
                /\ idbQueue' = written
           ELSE /\ calls' = [calls EXCEPT ![c] = [reported EXCEPT !.pc = "resolved"]]
                /\ isImporting' = FALSE
                /\ importProgress' = 100
                /\ storageError' = err
                /\ idbQueue' = PersistWrite(list, written)

\* addEntriesBatch of the IndexedDB-backed store up to its first await; its
\* first set makes isImporting true and storageError null
IdbAddEntriesBatch(c, n, cb) ==
  /\ store = "indexeddb"
  /\ CanCall(c)
  /\ IF n = 0
       THEN /\ calls' = [calls EXCEPT ![c] = [@ EXCEPT !.pc = "resolved", !.cb = cb]]
            /\ UNCHANGED <<entries, commitOrder, isImporting, importProgress,
                           storageError, idbQueue>>
       ELSE IdbIteration(c, n, cb, 0, calls[c], PersistWrite(entries, idbQueue),
                         TRUE, "null")
  /\ UNCHANGED <<store, user, remote, error, importVars, idVars, uiVars,
                 cloudVars, localStorage, idb, migrate, hydrate, added>>

\* The setTimeout of the yield fires and the loop goes on with batch i + 1.
IdbResume(c) ==
  /\ store = "indexeddb"
  /\ calls[c].pc = "yield"
  /\ IdbIteration(c, calls[c].n, calls[c].cb, calls[c].i + 1, calls[c], idbQueue,
                  isImporting, storageError)
  /\ UNCHANGED <<store, user, remote, error, importVars, idVars, uiVars,
                 cloudVars, localStorage, idb, migrate, hydrate, added>>

\* The module has been evaluated: the store is created with its initial
\* state and the middleware has called getItem; migrateFromLocalStorage has
\* read localStorage and, with an item there, has called idbGet.
InitIdb ==
  /\ store = "indexeddb"
  /\ user = TRUE
  /\ entries = <<>>
  /\ remote = <<>>
  /\ isImporting = FALSE
  /\ importProgress = 0
  /\ error = "null"
  /\ calls = [c \in Callers |-> IdleCall]
  /\ commitOrder = <<>>
  /\ workbook = "sheet"
  /\ jsonData = <<>>
  /\ importPc = "idle"
  /\ importResult = NoResult
  /\ host = DefaultHost
  /\ clock = SteadyClock
  /\ rng = DefaultRng
  /\ removedIds = {}
  /\ pastImports = <<>>
  /\ file = NoFile
  /\ isProcessingFile = FALSE
  /\ toast = "none"
  /\ dateRange = NoRange
  /\ importCalendarOpen = FALSE
  /\ fileChooserOpen = FALSE
  /\ selectedMonth = Today
  /\ monthEntries = <<>>
  /\ fetch = IdleFetch
  /\ cloudOp = IdleOp
  /\ localStorage \in {NoItem, SavedItem}
  /\ \E works \in BOOLEAN, item \in {NoItem, ExistingItem} :
       idb = [works |-> works, item |-> item, atStart |-> item]
  /\ hydrate = [pc |-> "getting", value |-> NoItem]
  /\ migrate = [pc |-> IF localStorage.isNull THEN "done" ELSE "getting",
                localData |-> localStorage, existingIDB |-> NoItem]
  /\ idbQueue = <<Request("get", "hydrate", NoItem)>>
                  \o (IF localStorage.isNull THEN <<>>
                      ELSE <<Request("get", "migrate", NoItem)>>)
  /\ storageError = "null"
  /\ added = 0

NextIdb ==
  \/ IdbServe
  \/ \E writesBack \in BOOLEAN : HydrateSettles(writesBack)
  \/ MigrateAfterGet
  \/ MigrateAfterSet
  \/ IdbAddEntry
  \/ IdbAddEntries
  \/ \E k \in 1..(MaxPrior + 1) : IdbRemoveEntry(k)
  \/ IdbClearAllEntries
  \/ \E err \in StorageErrors : SetStorageError(err)
  \/ \E importing \in BOOLEAN : IdbSetImporting(importing)
  \/ \E month \in SelectableMonths : IdbSetSelectedMonth(month)
  \/ \E n \in {0, 1, BATCH_SIZE + 1}, cb \in CallbackKinds : IdbAddEntriesBatch(1, n, cb)
  \/ \E cb \in {"none", "throws"} : IdbAddEntriesBatch(2, 1, cb)
  \/ IdbResume(1)

SpecIdb == InitIdb /\ [][NextIdb]_vars

\* The start-up has run to its end and every request is served
IdbQuiet ==
  /\ idbQueue = <<>>
  /\ migrate.pc = "done"
  /\ hydrate.pc = "done"

\* C30: the entries saved under 'sales-entries-storage' in localStorage are
\* not lost by the start-up migration: in every interleaving of the
\* migration, the rehydration and the first store mutations they end up in
\* IndexedDB or in the store (IndexedDB holding nothing at start-up), and
\* the migration's write never removes entries that IndexedDB holds.
C30_MigrationLosesNothing ==
  /\ []((IdbQuiet /\ idb.atStart.isNull) =>
         Range(migrate.localData.entries)
           \subseteq (Range(idb.item.entries) \cup Range(entries)))
  /\ [][(migrate.pc = "setting" /\ migrate'.pc = "set ok") =>
         Range(idb.item.entries) \subseteq Range(idb'.item.entries)]_vars

(***************************************************************************)
(* Properties of the row mapper, continued                                 *)
(***************************************************************************)
\* The logical field a header names when letter case is disregarded
HeaderField(header) ==
  CASE header \in {"Name", "name", "NAME", "nAME"} -> "name"
    [] header \in {"Product", "product", "PRODUCT"} -> "product"
    [] header \in {"Branch", "branch", "BRANCH"} -> "branch"
    [] header \in {"Quantity", "QTY", "qty", "QUANTITY", "Qty"} -> "quantity"
    [] OTHER -> "other"

\* The first non-empty cell of the field in alias order, the headers being
\* matched without regard to letter case
CaseBlindValue(row, field, aliases, fallback) ==
  LET others == {h \in DOMAIN row : /\ HeaderField(h) = field
                                    /\ h \notin Range(aliases)
                                    /\ Truthy(Cell(row, h))}
  IN IF \E k \in 1..Len(aliases) : Truthy(Cell(row, aliases[k]))
       THEN OrChain(Cells(row, aliases))
     ELSE IF others # {} THEN Cell(row, CHOOSE h \in others : TRUE)
     ELSE fallback

CaseBlindText(row, field, aliases) ==
  Trim(StringOf(CaseBlindValue(row, field, aliases, StringValue(<<>>))))

\* C24: every logical field is read from the header that matches one of its
\* aliases without regard to letter case, the first non-empty one in alias
\* order: a row whose name, product and branch are filled under such headers
\* and whose day resolves gives an entry with these texts and with the
\* quantity of its quantity cell.
C24_HeadersMatchIgnoringCase ==
  importPc = "resolved" =>
    \A i \in RowIndexes :
      LET row == RowAt(i)
          name == CaseBlindText(row, "name", NameAliases)
          product == CaseBlindText(row, "product", ProductAliases)
          branch == CaseBlindText(row, "branch", BranchAliases)
          qtyRaw == CaseBlindValue(row, "quantity", QuantityAliases,
                                   NumberValue(1, 1))
      IN (DayResolves(row) /\ name # <<>> /\ product # <<>> /\ branch # <<>>) =>
           \E k \in EntriesOfRow(i) :
             /\ importResult.data[k].name = name
             /\ importResult.data[k].description = product
             /\ importResult.data[k].branch = branch
             /\ importResult.data[k].qty = SafeQty(ParseLooseNumber(qtyRaw))

\* The texts of the errors the row mapper produces
RowErrorTexts ==
  {"Invalid Date value", "Missing name", "Missing product", "Missing branch"}

\* C25: the category of every imported entry is MHB, MLP, MSH, MUM or the
\* empty string, whatever the name is; no error is about the category, and
\* a complete row with a resolved day gives its entry and no error also
\* when no category can be inferred from its name.
C25_CategoryIsAllowedOrEmpty ==
  importPc = "resolved" =>
    /\ \A k \in 1..Len(importResult.data) :
         importResult.data[k].category \in Range(ALLOWED_CATEGORIES) \cup {<<>>}
    /\ \A k \in 1..Len(importResult.allErrors) :
         importResult.allErrors[k].row > 0 =>
           importResult.allErrors[k].text \in RowErrorTexts
    /\ \A i \in RowIndexes :
         (DayResolves(RowAt(i)) /\ MissingFields(RowAt(i)) = {}) =>
           /\ ErrorsOfRow(i) = {}
           /\ EntriesOfRow(i) # {}

\* A name of ten letters that holds no category code has given an entry
\* with the empty category.
C25_Witness ==
  /\ importPc = "resolved"
  /\ \E k \in 1..Len(importResult.data) :
       /\ Len(importResult.data[k].name) >= 9
       /\ importResult.data[k].category = <<>>
  /\ importResult.allErrors = <<>>

\* C26: no row with a non-empty name, product or branch is dropped silently:
\* every such row gives an entry or at least one error of the full error
\* list, also when its date cell is empty or the sheet has no date column.
C26_NoSilentDrop ==
  importPc = "resolved" =>
    \A i \in RowIndexes :
      MissingFields(RowAt(i)) # RequiredFields =>
        (EntriesOfRow(i) # {} \/ ErrorsOfRow(i) # {})

====
